---- MODULE Spec2Model ----
(***************************************************************************)
(* A model of saranrapjs/labor-leverage: the ixbrl package's tagged-fact   *)
(* extractor (Parse, FilterByType, Search, ScaledNumber), its text         *)
(* flattener (HTMLText) and its proximity search (FindNextLeafNodes).      *)
(*                                                                         *)
(* A document is the tree html.Parse builds.  Its nodes are numbered in    *)
(* document order (1..Len(doc)); node 0 is the document node itself.  Each *)
(* node records its parent, its node type, its Data (a tag name, or the    *)
(* characters of a text node) and the one attribute the code reads.        *)
(***************************************************************************)
EXTENDS Integers, Sequences, FiniteSets, TLC

VARIABLES
    doc,          \* the tree built by html.Parse: a sequence of nodes
    pc,           \* the position of the running call
    malformed,    \* the nodes whose markup xml.Unmarshal rejects
    parsedNodes,  \* Parse's first result: []*ParsedNode
    parseErr,     \* Parse's error result
    query,        \* the type parameter and predicate of the last query
    filtered,     \* FilterByType's result
    found,        \* Search's result (NilStruct: no match)
    nf,           \* the NonFraction ScaledNumber is called on
    scaled,       \* ScaledNumber's result
    text,         \* HTMLText's result, and FindNextLeafNodes' result
    anchor,       \* FindNextLeafNodes' node argument
    budget,       \* FindNextLeafNodes' n argument
    current,      \* FindNextLeafNodes' current
    parent,       \* FindNextLeafNodes' parent
    result,       \* FindNextLeafNodes' result.nodes
    tokens,       \* the words of the text handed to extractCEOPayRatio
    ratio,        \* extractCEOPayRatio's result
    facts,        \* the Facts record FromEdgar and FromIRS fill and return
    filingDocs,   \* the documents FromEdgar has processed, in order
    xmlData,      \* the XML of the return handed to irsform.Parse
    passes,       \* the xml.Unmarshal calls irsform.Parse has made
    returnDoc,    \* irsform.Parse's *Return, FromIRS's argument
    err,          \* the error result of irsform.Parse and of FromIRS, a handler's err
    store,        \* the rows of the facts table, by id
    clock,        \* the time, in units of ten days
    request,      \* the request a handler is serving
    stale,        \* the handler's stale
    factData,     \* the handler's factData
    network,      \* the downloads started, in order
    response      \* what the handler wrote to its ResponseWriter

vars == <<doc, pc, malformed, parsedNodes, parseErr, query, filtered, found, nf, scaled,
          text, anchor, budget, current, parent, result, tokens, ratio,
          facts, filingDocs, xmlData, passes, returnDoc, err,
          store, clock, request, stale, factData, network, response>>

parseVars == <<doc, malformed, parsedNodes, parseErr, query, filtered, found>>
scaleVars == <<nf, scaled>>
leafVars == <<anchor, budget, current, parent, result>>
ratioVars == <<tokens, ratio>>
edgarVars == <<facts, filingDocs>>
irsVars == <<xmlData, passes, returnDoc, err>>
serverVars == <<store, clock, request, stale, factData, network, response>>
factsVars == <<ratioVars, edgarVars, irsVars, serverVars>>

\* What the parser's actions and ScaledNumber leave alone.
outsideParse == <<scaleVars, text, leafVars, factsVars>>
outsideScale == <<parseVars, text, leafVars, factsVars>>
outsideFacts == <<parseVars, scaleVars, text, leafVars, irsVars, serverVars>>
outsideIRS == <<parseVars, scaleVars, text, leafVars, ratioVars, filingDocs, serverVars>>
outsideServer == <<parseVars, scaleVars, text, leafVars, ratioVars, edgarVars,
                   xmlData, passes, returnDoc>>

\* ---------------------------------------------------------------- bounds

\* The largest number of nodes (below the document node) of a document.
MaxNodes == 3

\* The largest number of nodes whose markup is not well-formed XML.
MaxMalformed == 1

\* The largest length of a generated Content and of a generated Scale.
MaxContentLen == 3
MaxScaleLen == 2

\* The largest number of nodes of a document handed to HTMLText, and of a
\* document of block elements and text alone.
MaxTextNodes == 5
MaxBlockNodes == 6

\* ------------------------------------------------------------ the tree

Nil == 0

DocumentNode == "document"
ElementNode == "element"
TextNode == "text"

NodeIds == 1..Len(doc)

\* n.Parent, 0 being the document node.
Parent(n) == doc[n].parent

\* The children of n in document order (n.FirstChild, then NextSibling).
RECURSIVE ChildrenFrom(_, _)
ChildrenFrom(n, i) ==
    IF i > Len(doc) THEN <<>>
    ELSE IF doc[i].parent = n THEN <<i>> \o ChildrenFrom(n, i + 1)
    ELSE ChildrenFrom(n, i + 1)

Children(n) == ChildrenFrom(n, 1)

NodeType(n) == IF n = 0 THEN DocumentNode ELSE doc[n].type

\* The ancestors of n, the document node excluded.
RECURSIVE Ancestors(_)
Ancestors(n) ==
    IF n = 0 \/ Parent(n) = 0 THEN {} ELSE {Parent(n)} \cup Ancestors(Parent(n))

\* n and the nodes below it.
Subtree(n) == {m \in NodeIds : m = n \/ n \in Ancestors(m)}

\* The nodes a new node may be appended to while the tree is built: the
\* document node, the last node and the last node's ancestors.
OpenNodes ==
    IF Len(doc) = 0 THEN {0}
    ELSE {n \in {0, Len(doc)} \cup Ancestors(Len(doc)) : NodeType(n) # TextNode}

\* ------------------------------------------------- the tagged-fact parser

\* A tag name is the sequence of its parts between colons: <<"div">> is
\* "div", <<"ix", "nonfraction">> is "ix:nonfraction".
\* strings.Contains(n.Data, ":")
HasColon(data) == Len(data) > 1

NonFractionTag == <<"ix", "nonfraction">>
NonNumericTag == <<"ix", "nonnumeric">>
FractionTag == <<"ix", "fraction">>
ContextTag == <<"xbrli", "context">>
UnitTag == <<"xbrli", "unit">>
CustomTag == <<"custom", "element">>
DivTag == <<"div">>

\* The struct type the registry's constructor makes for a tag name.
registry ==
    (NonFractionTag :> "NonFraction") @@ (NonNumericTag :> "NonNumeric")
    @@ (FractionTag :> "Fraction") @@ (ContextTag :> "Context")
    @@ (UnitTag :> "Unit")

FactKinds == {"NonFraction", "NonNumeric", "Fraction"}

\* The attribute values of the documents.
Ids == {"c1", "c2"}

NoAttr == [id |-> "", contextref |-> ""]

\* A nil ParsedNode.Struct.
NilStruct == [Kind |-> "nil", Ptr |-> Nil, ID |-> "", ContextRef |-> "", Context |-> Nil]

IsRegistered(n) == doc[n].type = ElementNode /\ doc[n].data \in DOMAIN registry

\* xml.Unmarshal reads the whole rendered element, its descendants included:
\* it fails when the markup of the element or of a node below it is not
\* well-formed XML.
DecodeFails(n, bad) == \E m \in Subtree(n) : m \in bad

\* The struct xml.Unmarshal fills from the element's attributes.  Ptr is the
\* identity of the allocated struct (one per decoded node); Context is the
\* Ptr of the attached Context, Nil until Parse resolves it.
Decode(n) ==
    LET kind == registry[doc[n].data]
    IN [Kind |-> kind,
        Ptr |-> n,
        ID |-> doc[n].attr.id,
        ContextRef |-> IF kind \in FactKinds THEN doc[n].attr.contextref ELSE "",
        Context |-> Nil]

\* collectAndParseNodes(n, &nodes): the nodes it appends, in order.
RECURSIVE collectAndParseNodes(_, _)
RECURSIVE collectChildren(_, _)
collectChildren(cs, bad) ==
    IF cs = <<>> THEN <<>>
    ELSE collectAndParseNodes(Head(cs), bad) \o collectChildren(Tail(cs), bad)

\* collectAndParseNodes not descending below a node it records.
collectWithoutNested(n, bad) ==
    IF NodeType(n) = ElementNode /\ HasColon(doc[n].data)
    THEN IF IsRegistered(n)
         THEN IF DecodeFails(n, bad)
              THEN <<>>
              ELSE <<[Node |-> n, Type |-> doc[n].data, Struct |-> Decode(n)]>>
         ELSE <<[Node |-> n, Type |-> doc[n].data, Struct |-> NilStruct]>>
    ELSE collectChildren(Children(n), bad)

collectAndParseNodes(n, bad) ==
    IF NodeType(n) = ElementNode /\ HasColon(doc[n].data)
    THEN IF IsRegistered(n)
         THEN IF DecodeFails(n, bad)
              THEN <<>>
              ELSE <<[Node |-> n, Type |-> doc[n].data, Struct |-> Decode(n)]>>
                   \o collectChildren(Children(n), bad)
         ELSE <<[Node |-> n, Type |-> doc[n].data, Struct |-> NilStruct]>>
              \o collectChildren(Children(n), bad)
    ELSE collectChildren(Children(n), bad)

\* getContexts(nodes): the decoded Context structs, in order.
getContexts(nodes) == SelectSeq(nodes, LAMBDA p : p.Struct.Kind = "Context")

\* attachContext without its test of the id: every context is attached.
attachContextUntested(contexts, ref, cur) ==
    IF contexts = <<>> THEN cur ELSE contexts[Len(contexts)].Struct.Ptr

\* attachContext leaving its loop at the first match.
RECURSIVE attachContextBreak(_, _, _)
attachContextBreak(contexts, ref, cur) ==
    IF contexts = <<>> THEN cur
    ELSE IF Head(contexts).Struct.ID = ref THEN Head(contexts).Struct.Ptr
         ELSE attachContextBreak(Tail(contexts), ref, cur)

\* The inner loop of Parse over the contexts: n.Context after it.
RECURSIVE attachContext(_, _, _)
attachContext(contexts, ref, cur) ==
    IF contexts = <<>> THEN cur
    ELSE attachContext(Tail(contexts), ref,
                       IF Head(contexts).Struct.ID = ref
                       THEN Head(contexts).Struct.Ptr ELSE cur)

\* The outer loop of Parse: every fact gets its Context.
resolveContexts(nodes) ==
    LET contexts == getContexts(nodes)
    IN [i \in 1..Len(nodes) |->
          IF nodes[i].Struct.Kind \in FactKinds
          THEN [nodes[i] EXCEPT !.Struct.Context =
                   attachContext(contexts, nodes[i].Struct.ContextRef, Nil)]
          ELSE nodes[i]]

\* The predicates handed to FilterByType and Search: "any" accepts every
\* struct, an id accepts the facts with that ContextRef and the contexts
\* with that ID.
Predicates == {"any"} \cup Ids

Holds(predicate, t) ==
    \/ predicate = "any"
    \/ IF t.Kind = "Context" THEN t.ID = predicate ELSE t.ContextRef = predicate

\* FilterByType[K](nodes, predicate): the loop over nodes from position i.
RECURSIVE filterFrom(_, _, _, _)
filterFrom(nodes, i, K, predicate) ==
    IF i > Len(nodes) THEN <<>>
    ELSE IF nodes[i].Struct.Kind = K /\ Holds(predicate, nodes[i].Struct)
         THEN <<nodes[i].Struct>> \o filterFrom(nodes, i + 1, K, predicate)
         ELSE filterFrom(nodes, i + 1, K, predicate)

\* FilterByType without its type assertion: decoded structs of any variant.
FilterAnyType(nodes, K, predicate) ==
    LET hits == SelectSeq(nodes, LAMBDA p : p.Struct.Kind # "nil" /\ Holds(predicate, p.Struct))
    IN [i \in 1..Len(hits) |-> hits[i].Struct]

FilterByType(nodes, K, predicate) == filterFrom(nodes, 1, K, predicate)

\* Search[K](nodes, predicate): the loop over nodes from position i.
RECURSIVE searchFrom(_, _, _, _)
searchFrom(nodes, i, K, predicate) ==
    IF i > Len(nodes) THEN NilStruct
    ELSE IF nodes[i].Struct.Kind = K /\ Holds(predicate, nodes[i].Struct)
         THEN nodes[i].Struct
         ELSE searchFrom(nodes, i + 1, K, predicate)

Search(nodes, K, predicate) == searchFrom(nodes, 1, K, predicate)

\* -------------------------------------------------- the parser's actions

NoQuery == [K |-> "", predicate |-> ""]

\* The element nodes of the documents handed to Parse: tag name and
\* attributes.  A fact carries a contextref, a context an id.
ParseLabels ==
    {[type |-> ElementNode, data |-> t, attr |-> NoAttr] : t \in {DivTag, CustomTag, UnitTag}}
    \cup {[type |-> ElementNode, data |-> t, attr |-> [id |-> "", contextref |-> r]] :
             t \in {NonFractionTag, NonNumericTag, FractionTag}, r \in Ids}
    \cup {[type |-> ElementNode, data |-> ContextTag, attr |-> [id |-> i, contextref |-> ""]] :
             i \in Ids}

\* No document has been handed to Parse.
ParseIdle ==
    /\ doc = <<>>
    /\ malformed = {}
    /\ parsedNodes = <<>>
    /\ parseErr = ""
    /\ query = NoQuery
    /\ filtered = <<>>
    /\ found = NilStruct

\* ScaledNumber has not been called.
ScaleIdle ==
    /\ nf = [Content |-> <<>>, Scale |-> <<>>]
    /\ scaled = "none"

\* HTMLText has not been called.
TextIdle == text = <<"none">>

\* A nil *html.Node.
NoNode == -1

\* FindNextLeafNodes has not been called.
LeafIdle ==
    /\ anchor = NoNode
    /\ budget = 0
    /\ current = NoNode
    /\ parent = NoNode
    /\ result = <<>>

\* No fact has been extracted.
FactsIdle ==
    /\ tokens = <<>>
    /\ ratio = "none"
    /\ facts = <<>>
    /\ filingDocs = <<>>
    /\ xmlData = <<>>
    /\ passes = <<>>
    /\ returnDoc = <<>>
    /\ err = ""
    /\ store = {}
    /\ clock = 0
    /\ request = <<>>
    /\ stale = FALSE
    /\ factData = <<>>
    /\ network = <<>>
    /\ response = <<>>

ParseInit ==
    /\ pc = "build"
    /\ ParseIdle
    /\ ScaleIdle
    /\ TextIdle
    /\ LeafIdle
    /\ FactsIdle

\* The last child of p is a text node.
EndsWithText(p) ==
    IF Children(p) = <<>> THEN FALSE
    ELSE NodeType(Children(p)[Len(Children(p))]) = TextNode

\* html.Parse appends the next node of the input, in document order, below
\* a node that is still open.  Text that follows text is one text node.
AppendNode(labels, max) ==
    /\ pc = "build"
    /\ Len(doc) < max
    /\ \E p \in OpenNodes, l \in labels :
          /\ ~(l.type = TextNode /\ EndsWithText(p))
          /\ doc' = Append(doc, [parent |-> p, type |-> l.type, data |-> l.data,
                                  attr |-> l.attr])
    /\ UNCHANGED <<pc, malformed, parsedNodes, parseErr, query, filtered, found, outsideParse>>

AppendParseNode == AppendNode(ParseLabels, MaxNodes)

\* The sets of elements whose decode may fail: markup that is not
\* well-formed XML fails the decode of the registered element around it.
MalformedSets ==
    {bad \in SUBSET {n \in NodeIds : IsRegistered(n)} : Cardinality(bad) <= MaxMalformed}

\* Parse(r) when html.Parse succeeds.
ParseOk(bad) ==
    /\ pc = "build"
    /\ malformed' = bad
    /\ parsedNodes' = resolveContexts(collectAndParseNodes(0, bad))
    /\ parseErr' = ""
    /\ pc' = "parsed"
    /\ UNCHANGED <<doc, query, filtered, found, outsideParse>>

Parse == \E bad \in MalformedSets : ParseOk(bad)

\* Parse(r) when html.Parse fails on the reader: nil nodes and the error.
ParseReadError ==
    /\ pc = "build"
    /\ parsedNodes' = <<>>
    /\ parseErr' = "read error"
    /\ pc' = "failed"
    /\ UNCHANGED <<doc, malformed, query, filtered, found, outsideParse>>

ParseNext == AppendParseNode \/ Parse \/ ParseReadError

SpecParse == ParseInit /\ [][ParseNext]_vars

\* ---------------------------------------------------- the query actions

\* The documents the queries run on: facts of two variants, contexts and an
\* unregistered namespaced tag.
QueryLabels ==
    {[type |-> ElementNode, data |-> CustomTag, attr |-> NoAttr]}
    \cup {[type |-> ElementNode, data |-> t, attr |-> [id |-> "", contextref |-> r]] :
             t \in {NonFractionTag, NonNumericTag}, r \in Ids}
    \cup {[type |-> ElementNode, data |-> ContextTag, attr |-> [id |-> i, contextref |-> ""]] :
             i \in Ids}

AppendQueryNode == AppendNode(QueryLabels, MaxNodes)

ParseWellFormed == ParseOk({})

QueryKinds == {"NonFraction", "NonNumeric", "Fraction", "Context", "Unit"}

FilterByTypeCall ==
    /\ pc = "parsed"
    /\ \E K \in QueryKinds, predicate \in Predicates :
          /\ query' = [K |-> K, predicate |-> predicate]
          /\ filtered' = FilterByType(parsedNodes, K, predicate)
    /\ pc' = "filtered"
    /\ UNCHANGED <<doc, malformed, parsedNodes, parseErr, found, outsideParse>>

SearchCall ==
    /\ pc = "parsed"
    /\ \E K \in QueryKinds, predicate \in Predicates :
          /\ query' = [K |-> K, predicate |-> predicate]
          /\ found' = Search(parsedNodes, K, predicate)
    /\ pc' = "searched"
    /\ UNCHANGED <<doc, malformed, parsedNodes, parseErr, filtered, outsideParse>>

QueryNext == AppendQueryNode \/ ParseWellFormed \/ FilterByTypeCall \/ SearchCall

SpecQuery == ParseInit /\ [][QueryNext]_vars

\* ------------------------------------------------ properties of Parse

\* The positions of parsedNodes holding a decoded fact.
FactPositions == {i \in 1..Len(parsedNodes) : parsedNodes[i].Struct.Kind \in FactKinds}

\* The decoded contexts of the document whose ID is ref, as positions of
\* parsedNodes.
MatchingContexts(ref) ==
    {j \in 1..Len(parsedNodes) :
        parsedNodes[j].Struct.Kind = "Context" /\ parsedNodes[j].Struct.ID = ref}

\* The element nodes of the document whose tag name contains a colon.
Namespaced == {n \in NodeIds : NodeType(n) = ElementNode /\ HasColon(doc[n].data)}

\* The elements of a set of nodes in document order.
RECURSIVE InDocumentOrder(_)
InDocumentOrder(S) ==
    IF S = {} THEN <<>>
    ELSE LET least == CHOOSE n \in S : \A m \in S : n <= m
         IN <<least>> \o InDocumentOrder(S \ {least})

RecordedNodes == [i \in 1..Len(parsedNodes) |-> parsedNodes[i].Node]

\* C1: after Parse, a fact has a Context exactly when a decoded context of
\* the document has the fact's ContextRef as its ID, before or after the
\* fact; the attached Context has that ID; an unmatched fact keeps a nil
\* Context and Parse returns no error.
C1_ContextIffMatchingId ==
    pc = "parsed" =>
        /\ parseErr = ""
        /\ \A i \in FactPositions :
              LET f == parsedNodes[i].Struct
              IN /\ (f.Context # Nil) <=> (MatchingContexts(f.ContextRef) # {})
                 /\ f.Context # Nil =>
                       \E j \in MatchingContexts(f.ContextRef) :
                          parsedNodes[j].Struct.Ptr = f.Context

\* A document where one fact got a context that follows it and another
\* fact matched none.
C1_Witness ==
    /\ pc = "parsed"
    /\ \E i, k \in FactPositions :
          /\ parsedNodes[i].Struct.Context > parsedNodes[i].Node
          /\ parsedNodes[k].Struct.Context = Nil

\* C2 as stated: with several decoded contexts of one id, every fact
\* referencing the id gets the first of them in document order.
C2_FirstMatchWins ==
    pc = "parsed" =>
        \A i \in FactPositions :
           LET m == MatchingContexts(parsedNodes[i].Struct.ContextRef)
           IN m # {} =>
                 parsedNodes[i].Struct.Context =
                    parsedNodes[CHOOSE j \in m : \A k \in m : j <= k].Struct.Ptr

\* C2 amended: with several decoded contexts of one id, every fact
\* referencing the id gets the last of them in document order; the
\* duplicates stay in the result and Parse returns no error.
C2_LastMatchWins ==
    pc = "parsed" =>
        /\ parseErr = ""
        /\ \A i \in FactPositions :
              LET m == MatchingContexts(parsedNodes[i].Struct.ContextRef)
              IN m # {} =>
                    parsedNodes[i].Struct.Context =
                       parsedNodes[CHOOSE j \in m : \A k \in m : j >= k].Struct.Ptr

\* A fact that references an id two decoded contexts share.
C2_Witness ==
    /\ pc = "parsed"
    /\ \E i \in FactPositions :
          /\ Cardinality(MatchingContexts(parsedNodes[i].Struct.ContextRef)) >= 2
          /\ parsedNodes[i].Struct.Context # Nil

\* The registered elements whose decode fails.
FailedDecodes == {n \in NodeIds : IsRegistered(n) /\ DecodeFails(n, malformed)}

\* C3 as stated: a decode failure leaves out only the failed element; every
\* other namespaced element, those nested in the failed element included,
\* is recorded, and Parse returns no error.
C3_OnlyFailedElementLeftOut ==
    pc = "parsed" =>
        /\ parseErr = ""
        /\ RecordedNodes = InDocumentOrder(Namespaced \ FailedDecodes)

\* C4: when no decode fails, Parse records exactly the elements whose tag
\* name contains a colon, in document order; an unregistered one with its
\* name, its node and a nil struct; none gives an empty list and no error.
C4_RecordsNamespacedInOrder ==
    (pc = "parsed" /\ FailedDecodes = {}) =>
        /\ parseErr = ""
        /\ RecordedNodes = InDocumentOrder(Namespaced)
        /\ \A i \in 1..Len(parsedNodes) :
              LET p == parsedNodes[i]
              IN /\ p.Type = doc[p.Node].data
                 /\ p.Type \notin DOMAIN registry => p.Struct = NilStruct
                 /\ p.Type \in DOMAIN registry =>
                       p.Struct.Kind = registry[p.Type] /\ p.Struct.Ptr = p.Node
        /\ Namespaced = {} => parsedNodes = <<>>

\* A parsed document with a plain element, a registered element nested in
\* an unregistered one, and no failed decode.
C4_Witness ==
    /\ pc = "parsed"
    /\ FailedDecodes = {}
    /\ Len(parsedNodes) >= 2
    /\ \E n \in NodeIds : n \notin Namespaced
    /\ \E i \in 1..Len(parsedNodes) :
          /\ parsedNodes[i].Struct # NilStruct
          /\ Parent(parsedNodes[i].Node) # 0
          /\ doc[Parent(parsedNodes[i].Node)].data = CustomTag

\* --------------------------------------------- properties of the queries

\* The positions of parsedNodes holding a decoded struct of the queried
\* variant that satisfies the queried predicate.
QueryHits ==
    {i \in 1..Len(parsedNodes) :
        /\ parsedNodes[i].Struct # NilStruct
        /\ parsedNodes[i].Struct.Kind = query.K
        /\ Holds(query.predicate, parsedNodes[i].Struct)}

\* C5: FilterByType returns exactly the decoded structs of the requested
\* variant that satisfy the predicate, in document order; Search returns
\* the first element of that list, or nil when the list is empty.
C5_FilterAndSearch ==
    /\ pc = "filtered" =>
          LET hits == InDocumentOrder(QueryHits)
          IN filtered = [k \in 1..Len(hits) |-> parsedNodes[hits[k]].Struct]
    /\ pc = "searched" =>
          LET all == FilterByType(parsedNodes, query.K, query.predicate)
          IN /\ found = IF all = <<>> THEN NilStruct ELSE all[1]
             /\ found # NilStruct => found.Kind = query.K

\* A filter that returned some of the list and left out a fact of another
\* variant and an undecoded node.
C5_Witness ==
    /\ pc = "filtered"
    /\ query.predicate # "any"
    /\ Len(filtered) = 1
    /\ \E i \in 1..Len(parsedNodes) : parsedNodes[i].Struct = NilStruct
    /\ \E i \in FactPositions :
          /\ parsedNodes[i].Struct.Kind # query.K
          /\ Holds(query.predicate, parsedNodes[i].Struct)

\* ------------------------------------------------------- ScaledNumber

\* A string is the sequence of its characters.  A float64 is a decimal
\* m * 10^e with m not a multiple of 10 (0 is m = 0, e = 0), an infinity
\* (m its sign) or NaN.  The decimals are exact: the rounding of float64
\* arithmetic is not modelled.
Finite(m, e) == [kind |-> "finite", m |-> m, e |-> e]
Inf(sign) == [kind |-> "inf", m |-> sign, e |-> 0]
NaN == [kind |-> "nan", m |-> 0, e |-> 0]

RECURSIVE Norm(_, _)
Norm(m, e) ==
    IF m = 0 THEN Finite(0, 0)
    ELSE IF m % 10 = 0 THEN Norm(m \div 10, e + 1)
    ELSE Finite(m, e)

Sign(m) == IF m < 0 THEN -1 ELSE 1

\* The float64 product a * b.
Mul(a, b) ==
    IF a.kind = "nan" \/ b.kind = "nan" THEN NaN
    ELSE IF a.kind = "inf" \/ b.kind = "inf"
         THEN IF a.m = 0 \/ b.m = 0 THEN NaN ELSE Inf(Sign(a.m) * Sign(b.m))
         ELSE Norm(a.m * b.m, a.e + b.e)

DigitChars == {"0", "1", "2", "3", "4", "5", "6", "7", "8", "9"}

DigitValue ==
    ("0" :> 0) @@ ("1" :> 1) @@ ("2" :> 2) @@ ("3" :> 3) @@ ("4" :> 4)
    @@ ("5" :> 5) @@ ("6" :> 6) @@ ("7" :> 7) @@ ("8" :> 8) @@ ("9" :> 9)

IsDigits(str) == \A i \in 1..Len(str) : str[i] \in DigitChars

\* The number a string of digits denotes, acc being that of the digits read.
RECURSIVE DigitsValue(_, _)
DigitsValue(str, acc) ==
    IF str = <<>> THEN acc
    ELSE DigitsValue(Tail(str), 10 * acc + DigitValue[Head(str)])

HasSign(str) == str # <<>> /\ Head(str) \in {"+", "-"}

Unsigned(str) == IF HasSign(str) THEN Tail(str) ELSE str

SignOf(str) == IF str # <<>> /\ Head(str) = "-" THEN -1 ELSE 1

\* strconv.Atoi(s): an optional sign and at least one digit, nothing else.
AtoiOk(str) == Unsigned(str) # <<>> /\ IsDigits(Unsigned(str))

Atoi(str) == SignOf(str) * DigitsValue(Unsigned(str), 0)

\* The exponents math.Pow10 has a finite, non-zero float64 for.
MinPow10 == -323
MaxPow10 == 308

\* math.Pow10(n)
Pow10(n) ==
    IF n < MinPow10 THEN Finite(0, 0)
    ELSE IF n > MaxPow10 THEN Inf(1)
    ELSE Finite(1, n)

\* strings.ReplaceAll(s, ",", "")
RemoveCommas(str) == SelectSeq(str, LAMBDA c : c # ",")

\* The position of the first "." of str, 0 when it has none.
RECURSIVE DotAt(_, _)
DotAt(str, i) ==
    IF i > Len(str) THEN 0
    ELSE IF str[i] = "." THEN i
    ELSE DotAt(str, i + 1)

\* strconv.ParseFloat(s, 64) over signs, digits and ".": an optional sign,
\* then digits with at most one ".", one digit at least.
ParseFloatOk(str) ==
    LET u == Unsigned(str)
        d == DotAt(u, 1)
        int == IF d = 0 THEN u ELSE SubSeq(u, 1, d - 1)
        frac == IF d = 0 THEN <<>> ELSE SubSeq(u, d + 1, Len(u))
    IN /\ IsDigits(int)
       /\ IsDigits(frac)
       /\ Len(int) + Len(frac) >= 1

ParseFloat(str) ==
    LET u == Unsigned(str)
        d == DotAt(u, 1)
        int == IF d = 0 THEN u ELSE SubSeq(u, 1, d - 1)
        frac == IF d = 0 THEN <<>> ELSE SubSeq(u, d + 1, Len(u))
    IN Norm(SignOf(str) * DigitsValue(int \o frac, 0), 0 - Len(frac))

\* (nf *NonFraction) scale()
scale(x) == IF AtoiOk(x.Scale) THEN Pow10(Atoi(x.Scale)) ELSE Finite(1, 0)

\* number() parsing the content as it is, commas included.
numberKeepingCommas(x) ==
    IF ParseFloatOk(x.Content) THEN ParseFloat(x.Content) ELSE Finite(0, 0)

\* (nf *NonFraction) number()
number(x) ==
    LET cleanContent == RemoveCommas(x.Content)
    IN IF ParseFloatOk(cleanContent) THEN ParseFloat(cleanContent) ELSE Finite(0, 0)

\* (nf *NonFraction) ScaledNumber()
ScaledNumber(x) == Mul(scale(x), number(x))

\* ------------------------------------------- the actions of ScaledNumber

ContentChars == {"2", "7", "0", ",", ".", "-"}
ScaleChars == {"3", "-", "."}

\* The strings over chars of length at most n.
RECURSIVE Strings(_, _)
Strings(chars, n) ==
    IF n = 0 THEN {<<>>}
    ELSE LET shorter == Strings(chars, n - 1)
         IN shorter \cup {Append(str, c) : str \in shorter, c \in chars}

\* The fact of TestParseNonFraction.
FixtureContent == <<"2", "7", ",", "1", "6", "3">>
FixtureScale == <<"3">>

ScaleInit ==
    /\ pc = "decoded"
    /\ ParseIdle
    /\ TextIdle
    /\ LeafIdle
    /\ FactsIdle
    /\ nf \in [Content : Strings(ContentChars, MaxContentLen) \cup {FixtureContent},
               Scale : Strings(ScaleChars, MaxScaleLen)]
    /\ scaled = "none"

ScaledNumberCall ==
    /\ pc = "decoded"
    /\ scaled' = ScaledNumber(nf)
    /\ pc' = "scaled"
    /\ UNCHANGED <<nf, outsideScale>>

ScaleNext == ScaledNumberCall

SpecScale == ScaleInit /\ [][ScaleNext]_vars

\* ---------------------------------------------- properties of ScaledNumber

\* The characters of a literal that are not thousands separators.
Literal(str) == SelectSeq(str, LAMBDA c : c # ",")

\* A literal is a decimal number: digits, at most one "." among them and
\* an optional leading sign.
IsDecimalLiteral(str) ==
    LET body == SelectSeq(Literal(str), LAMBDA c : c \notin {"."})
    IN /\ Cardinality({i \in 1..Len(str) : str[i] = "."}) <= 1
       /\ Unsigned(body) # <<>>
       /\ \A i \in 1..Len(Unsigned(body)) : Unsigned(body)[i] \in DigitChars
       /\ \A i \in 2..Len(str) : str[i] \notin {"+", "-"}

\* The digits of a decimal literal as an integer and the number of digits
\* after its ".".
LiteralDigits(str) ==
    DigitsValue(SelectSeq(str, LAMBDA c : c \in DigitChars), 0)

LiteralFractionLen(str) ==
    Cardinality({i \in 1..Len(str) :
                    str[i] \in DigitChars /\ \E j \in 1..(i - 1) : str[j] = "."})

\* The power of ten a scale attribute stands for: 0 when it is missing or
\* not an integer.
ScaleExponent(str) ==
    IF /\ Unsigned(str) # <<>>
       /\ \A i \in 1..Len(Unsigned(str)) : Unsigned(str)[i] \in DigitChars
    THEN SignOf(str) * LiteralDigits(str)
    ELSE 0

\* C6: ScaledNumber is the literal content, thousands separators removed,
\* times 10 to the power of the scale attribute, a missing or non-integer
\* scale counting as multiplier 1; scale 3 and "27,163" give 27163000.
C6_ScaledNumber ==
    pc = "scaled" =>
        /\ (IsDecimalLiteral(nf.Content)
              /\ ScaleExponent(nf.Scale) \in MinPow10..MaxPow10) =>
              scaled = Norm(SignOf(nf.Content) * LiteralDigits(nf.Content),
                            ScaleExponent(nf.Scale) - LiteralFractionLen(nf.Content))
        /\ (nf.Content = FixtureContent /\ nf.Scale = FixtureScale) =>
              scaled = Norm(27163000, 0)

\* The fixture's fact, scaled.
C6_Witness ==
    /\ pc = "scaled"
    /\ nf.Content = FixtureContent
    /\ nf.Scale = FixtureScale
    /\ scaled = Finite(27163, 3)

\* ------------------------------------------------------- the flattener

\* unicode.IsSpace over the characters of the documents.
IsSpace(c) == c \in {" ", "\n", "\t"}

\* strings.Fields(s): the maximal runs of non-space characters, word being
\* the run read so far.
RECURSIVE FieldsFrom(_, _)
FieldsFrom(str, word) ==
    IF str = <<>> THEN (IF word = <<>> THEN <<>> ELSE <<word>>)
    ELSE IF IsSpace(Head(str))
         THEN (IF word = <<>> THEN <<>> ELSE <<word>>) \o FieldsFrom(Tail(str), <<>>)
         ELSE FieldsFrom(Tail(str), Append(word, Head(str)))

Fields(str) == FieldsFrom(str, <<>>)

\* strings.Join(words, sep)
RECURSIVE Join(_, _)
Join(words, sep) ==
    IF words = <<>> THEN <<>>
    ELSE IF Len(words) = 1 THEN words[1]
    ELSE words[1] \o sep \o Join(Tail(words), sep)

\* strings.TrimSpace(s)
RECURSIVE TrimLeft(_)
TrimLeft(str) ==
    IF str # <<>> /\ IsSpace(Head(str)) THEN TrimLeft(Tail(str)) ELSE str

RECURSIVE TrimRight(_)
TrimRight(str) ==
    IF str # <<>> /\ IsSpace(str[Len(str)])
    THEN TrimRight(SubSeq(str, 1, Len(str) - 1)) ELSE str

TrimSpace(str) == TrimRight(TrimLeft(str))

SpanTag == <<"span">>
InlineTags == {<<"span">>, <<"em">>, <<"strong">>, <<"a">>, <<"br">>}

\* isInlineNode(node)
isInlineNode(n) ==
    IF NodeType(n) # ElementNode THEN TRUE ELSE doc[n].data \in InlineTags

\* onlyInlineChildren(node)
onlyInlineChildren(n) == \A i \in 1..Len(Children(n)) : isInlineNode(Children(n)[i])

\* extractText(node, builder): what it writes to builder.
RECURSIVE extractText(_)
RECURSIVE extractChildren(_, _)
\* extractChildren without the skip of bare text nodes.
extractChildrenKeepingText(cs, allInlineChildren) ==
    IF cs = <<>> THEN <<>>
    ELSE extractText(Head(cs)) \o extractChildren(Tail(cs), allInlineChildren)

extractChildren(cs, allInlineChildren) ==
    IF cs = <<>> THEN <<>>
    ELSE IF ~allInlineChildren /\ NodeType(Head(cs)) = TextNode
         THEN extractChildren(Tail(cs), allInlineChildren)
         ELSE extractText(Head(cs)) \o extractChildren(Tail(cs), allInlineChildren)

extractText(n) ==
    LET own == IF NodeType(n) = TextNode THEN doc[n].data ELSE <<>>
        allInlineChildren == onlyInlineChildren(n)
        cb == extractChildren(Children(n), allInlineChildren)
    IN own
       \o (IF allInlineChildren THEN Join(Fields(cb), <<" ">>) ELSE cb)
       \o (IF NodeType(n) = ElementNode /\ ~isInlineNode(n) THEN <<"\n">> ELSE <<>>)

\* What the loop of HTMLText over its nodes writes.
RECURSIVE extractAll(_)
extractAll(nodes) ==
    IF nodes = <<>> THEN <<>> ELSE extractText(Head(nodes)) \o extractAll(Tail(nodes))

\* HTMLText(nodes...): the written text w is trimmed, w being bound so that
\* it is computed once.
HTMLText(nodes) == CHOOSE t \in {TrimSpace(w) : w \in {extractAll(nodes)}} : TRUE

\* ------------------------------------------- the actions of the flattener

\* The nodes of the documents handed to HTMLText: a block element, an
\* inline element and text nodes.
TextData == {<<"a">>, <<" ", "b">>}

TextLabels ==
    {[type |-> ElementNode, data |-> t, attr |-> NoAttr] : t \in {DivTag, SpanTag}}
    \cup {[type |-> TextNode, data |-> d, attr |-> NoAttr] : d \in TextData}

TextInit ==
    /\ pc = "build"
    /\ ParseIdle
    /\ ScaleIdle
    /\ TextIdle
    /\ LeafIdle
    /\ FactsIdle

AppendTextNode == AppendNode(TextLabels, MaxTextNodes)

\* HTMLText(doc) of the root of the tree.
HTMLTextCall ==
    /\ pc = "build"
    /\ text' = HTMLText(<<0>>)
    /\ pc' = "flattened"
    /\ UNCHANGED <<parseVars, scaleVars, leafVars, factsVars>>

TextNext == AppendTextNode \/ HTMLTextCall

SpecText == TextInit /\ [][TextNext]_vars

\* The nodes of the documents of nested blocks: a block element and a text
\* node.
BlockLabels ==
    {[type |-> ElementNode, data |-> DivTag, attr |-> NoAttr],
     [type |-> TextNode, data |-> <<"a">>, attr |-> NoAttr]}

AppendBlockNode == AppendNode(BlockLabels, MaxBlockNodes)

BlocksNext == AppendBlockNode \/ HTMLTextCall

SpecBlocks == TextInit /\ [][BlocksNext]_vars

\* ------------------------------------------- properties of the flattener

Elements == {n \in NodeIds : NodeType(n) = ElementNode}

\* The text of the text nodes of a sequence of nodes and of all the nodes
\* below them, in document order.
RECURSIVE SourceText(_)
SourceText(nodes) ==
    IF nodes = <<>> THEN <<>>
    ELSE (IF NodeType(Head(nodes)) = TextNode THEN doc[Head(nodes)].data ELSE <<>>)
         \o SourceText(Children(Head(nodes))) \o SourceText(Tail(nodes))

\* The renderings of the children of n that are not text nodes, in order.
RECURSIVE RenderedFrom(_)
RenderedFrom(cs) ==
    IF cs = <<>> THEN <<>>
    ELSE (IF NodeType(Head(cs)) = TextNode THEN <<>> ELSE extractText(Head(cs)))
         \o RenderedFrom(Tail(cs))

LineBreakAfter(n) ==
    IF NodeType(n) = ElementNode /\ ~isInlineNode(n) THEN <<"\n">> ELSE <<>>

\* C7 as stated: the text of the root never has two blank lines in a row
\* (three line breaks in a row), however deep the block elements nest.
C7_NoConsecutiveBlankLines ==
    pc = "flattened" =>
        ~ \E i \in 1..(Len(text) - 2) :
             text[i] = "\n" /\ text[i + 1] = "\n" /\ text[i + 2] = "\n"

\* C8 as stated: an element whose direct children are all inline renders
\* as the text of its subtree in document order, every run of whitespace
\* collapsed to one space, whitespace at the edge of a nested inline
\* element included.
C8_InlineRunCollapsed ==
    pc = "flattened" =>
        \A n \in Elements :
           onlyInlineChildren(n) =>
              HTMLText(<<n>>) = Join(Fields(SourceText(<<n>>)), <<" ">>)

MaxLeafNodes == 6
MaxBudget == 2

\* node.Parent and node.NextSibling; the document node has neither.
ParentOf(m) == IF m = 0 THEN NoNode ELSE Parent(m)

NextSibling(m) ==
    IF m = 0 THEN NoNode
    ELSE LET later == {k \in NodeIds : k > m /\ Parent(k) = Parent(m)}
         IN IF later = {} THEN NoNode
            ELSE CHOOSE k \in later : \A j \in later : k <= j

RECURSIVE getNodeDepth(_)
getNodeDepth(m) == IF ParentOf(m) = NoNode THEN 0 ELSE 1 + getNodeDepth(ParentOf(m))

\* A node without element children.
isLeafNode(m) ==
    /\ m # NoNode
    /\ \A i \in 1..Len(Children(m)) : NodeType(Children(m)[i]) # ElementNode

\* leafAccumulator: Len is the length of the flattened text of the nodes,
\* Add appends a node that is not yet among them.
AccLen(nodes) == Len(HTMLText(nodes))

Add(nodes, m) ==
    IF \E i \in 1..Len(nodes) : nodes[i] = m THEN nodes ELSE Append(nodes, m)

RECURSIVE findTextNodesUnbounded(_, _, _, _)
RECURSIVE unboundedChildren(_, _, _, _)
\* findTextNodesAtDepth without its checks of the budget.
findTextNodesUnbounded(m, targetDepth, nodes, maxLength) ==
    IF m = NoNode THEN nodes
    ELSE IF getNodeDepth(m) >= targetDepth /\ isLeafNode(m) THEN Add(nodes, m)
    ELSE unboundedChildren(Children(m), targetDepth, nodes, maxLength)

unboundedChildren(cs, targetDepth, nodes, maxLength) ==
    IF cs = <<>> THEN nodes
    ELSE unboundedChildren(Tail(cs), targetDepth,
                           findTextNodesUnbounded(Head(cs), targetDepth, nodes, maxLength),
                           maxLength)

RECURSIVE findTextNodesAnyDepth(_, _, _, _)
RECURSIVE anyDepthChildren(_, _, _, _)
\* findTextNodesAtDepth without its test of the depth.
findTextNodesAnyDepth(m, targetDepth, nodes, maxLength) ==
    IF m = NoNode \/ AccLen(nodes) >= maxLength THEN nodes
    ELSE IF isLeafNode(m) THEN Add(nodes, m)
    ELSE anyDepthChildren(Children(m), targetDepth, nodes, maxLength)

anyDepthChildren(cs, targetDepth, nodes, maxLength) ==
    IF cs = <<>> \/ AccLen(nodes) >= maxLength THEN nodes
    ELSE anyDepthChildren(Tail(cs), targetDepth,
                          findTextNodesAnyDepth(Head(cs), targetDepth, nodes, maxLength),
                          maxLength)

RECURSIVE findTextNodesAtDepth(_, _, _, _)
RECURSIVE findInChildren(_, _, _, _)
\* The loop of findTextNodesAtDepth over the children cs that are left.
findInChildren(cs, targetDepth, nodes, maxLength) ==
    IF cs = <<>> \/ AccLen(nodes) >= maxLength THEN nodes
    ELSE findInChildren(Tail(cs), targetDepth,
                        findTextNodesAtDepth(Head(cs), targetDepth, nodes, maxLength),
                        maxLength)

findTextNodesAtDepth(m, targetDepth, nodes, maxLength) ==
    IF m = NoNode \/ AccLen(nodes) >= maxLength THEN nodes
    ELSE IF getNodeDepth(m) >= targetDepth /\ isLeafNode(m) THEN Add(nodes, m)
    ELSE findInChildren(Children(m), targetDepth, nodes, maxLength)

\* FindNextLeafNodes' targetDepth.
targetDepth == getNodeDepth(anchor) - 2

LeafInit ==
    /\ pc = "build"
    /\ ParseIdle
    /\ ScaleIdle
    /\ TextIdle
    /\ LeafIdle
    /\ FactsIdle

AppendLeafNode == AppendNode(BlockLabels, MaxLeafNodes)

\* FindNextLeafNodes(node, n) up to its loop: the empty string for a nil
\* node or a budget that is not positive.
FindNextLeafNodesCall ==
    /\ pc = "build"
    /\ \E node \in {NoNode, 0} \cup NodeIds, n \in 0..MaxBudget :
          /\ anchor' = node
          /\ budget' = n
          /\ result' = <<>>
          /\ IF node = NoNode \/ n <= 0
             THEN /\ pc' = "returned"
                  /\ text' = <<>>
                  /\ current' = NoNode
                  /\ parent' = NoNode
             ELSE /\ pc' = "walking"
                  /\ current' = NextSibling(node)
                  /\ parent' = ParentOf(node)
                  /\ UNCHANGED text
    /\ UNCHANGED <<parseVars, scaleVars, factsVars>>

\* One pass of the loop with a current node: scan it, go to its sibling.
ScanSibling ==
    /\ pc = "walking"
    /\ AccLen(result) < budget
    /\ current # NoNode
    /\ result' = findTextNodesAtDepth(current, targetDepth, result, budget)
    /\ current' = NextSibling(current)
    /\ UNCHANGED <<pc, text, anchor, budget, parent, parseVars, scaleVars, factsVars>>

\* The pass going to the parent's sibling and keeping the parent.
ClimbWithoutParent ==
    /\ pc = "walking"
    /\ AccLen(result) < budget
    /\ current = NoNode
    /\ parent # NoNode
    /\ current' = NextSibling(parent)
    /\ UNCHANGED <<pc, text, anchor, budget, parent, result, parseVars, scaleVars, factsVars>>

\* One pass of the loop without a current node: climb to the parent.
ClimbToParent ==
    /\ pc = "walking"
    /\ AccLen(result) < budget
    /\ current = NoNode
    /\ parent # NoNode
    /\ current' = NextSibling(parent)
    /\ parent' = ParentOf(parent)
    /\ UNCHANGED <<pc, text, anchor, budget, result, parseVars, scaleVars, factsVars>>

\* The loop is over: return result.String().
FindNextLeafNodesReturn ==
    /\ pc = "walking"
    /\ ~(AccLen(result) < budget /\ (current # NoNode \/ parent # NoNode))
    /\ text' = HTMLText(result)
    /\ pc' = "returned"
    /\ UNCHANGED <<anchor, budget, current, parent, result, parseVars, scaleVars, factsVars>>

LeafNext ==
    \/ AppendLeafNode
    \/ FindNextLeafNodesCall
    \/ ScanSibling
    \/ ClimbToParent
    \/ FindNextLeafNodesReturn

SpecLeaf == LeafInit /\ [][LeafNext]_vars

\* The search on the trees of at most MaxWalkNodes nodes, every pass of
\* the loop and the return being taken when it is their turn.
MaxWalkNodes == 4

AppendWalkNode == AppendNode(BlockLabels, MaxWalkNodes)

WalkNext ==
    \/ AppendWalkNode
    \/ FindNextLeafNodesCall
    \/ ScanSibling
    \/ ClimbToParent
    \/ FindNextLeafNodesReturn

\* The position of the walk.
walkVars == <<pc, current, parent, result>>

SpecLeafWalk ==
    /\ LeafInit
    /\ [][WalkNext]_vars
    /\ WF_walkVars(ScanSibling)
    /\ WF_walkVars(ClimbToParent)
    /\ WF_walkVars(FindNextLeafNodesReturn)

\* ------------------------------------------ properties: proximity search
\* The search has started on a node with a positive budget.
Searching == pc \in {"walking", "returned"} /\ anchor # NoNode /\ budget > 0

\* The nodes after the anchor in document order, outside its subtree.
Following == {m \in NodeIds : m > anchor /\ m \notin Subtree(anchor) /\ anchor # 0}

\* A leaf that is deep enough to be taken.
Qualifies(m) == getNodeDepth(m) >= targetDepth /\ isLeafNode(m)

\* The leaves a scan of everything after the anchor takes: a leaf below a
\* leaf that is taken is part of that leaf.
LeavesAfterAnchor ==
    {m \in Following : Qualifies(m) /\ \A a \in Ancestors(m) \cap Following : ~Qualifies(a)}

Taken == {result[i] : i \in 1..Len(result)}

\* C10: every accumulated node was added while the flattened text of the
\* nodes before it was shorter than the budget, and a returned text shorter
\* than the budget means the walk reached the end of the tree with every
\* leaf after the anchor taken.
C10_StopsAtBudget ==
    Searching =>
        /\ \A k \in 1..Len(result) : AccLen(SubSeq(result, 1, k - 1)) < budget
        /\ (pc = "returned" /\ Len(text) < budget) =>
              /\ current = NoNode
              /\ parent = NoNode
              /\ LeavesAfterAnchor \subseteq Taken
        /\ pc = "returned" => text = HTMLText(result)

\* A search that returned with the budget reached and a leaf after the
\* anchor left untaken.
C10_Witness ==
    /\ Searching
    /\ pc = "returned"
    /\ result # <<>>
    /\ Len(text) >= budget
    /\ ~(LeavesAfterAnchor \subseteq Taken)

\* C11: every accumulated node is a leaf at depth(anchor) - 2 or deeper
\* that comes after the anchor in document order outside the anchor's
\* subtree (so it is not the anchor, a descendant, an ancestor or an earlier
\* node), and the nodes are accumulated in strictly increasing document
\* order.
C11_AccumulatedLeavesFollowAnchor ==
    Searching =>
        /\ \A i \in 1..Len(result) :
              /\ result[i] \in Following
              /\ isLeafNode(result[i])
              /\ getNodeDepth(result[i]) >= getNodeDepth(anchor) - 2
              /\ result[i] # anchor
              /\ result[i] \notin Subtree(anchor) \cup Ancestors(anchor)
              /\ result[i] > anchor
        /\ \A i, j \in 1..Len(result) : i < j => result[i] < result[j]

\* A finished search that took a leaf and passed over a leaf after the
\* anchor that is too shallow.
C11_Witness ==
    /\ Searching
    /\ pc = "returned"
    /\ result # <<>>
    /\ \E m \in Following : isLeafNode(m) /\ getNodeDepth(m) < targetDepth

\* -------------------------------------------------- the CEO pay ratio
\* The largest number of words of a text handed to extractCEOPayRatio.
MaxTokens == 3

\* a < b and a = b for finite float64 values.
RECURSIVE TimesPow10(_, _)
TimesPow10(m, k) == IF k = 0 THEN m ELSE TimesPow10(10 * m, k - 1)

Less(a, b) ==
    LET e == IF a.e < b.e THEN a.e ELSE b.e
    IN TimesPow10(a.m, a.e - e) < TimesPow10(b.m, b.e - e)

\* The end of the longest run of characters of set that starts at i
\* (i - 1 when there is none).
RECURSIVE RunEnd(_, _, _)
RunEnd(str, i, set) ==
    IF i <= Len(str) /\ str[i] \in set THEN RunEnd(str, i + 1, set) ELSE i - 1

\* The end of the match of \$[\d,]+(?:\.\d{2})? that starts at i, 0 when
\* there is none.
dollarMatchEnd(str, i) ==
    IF str[i] # "$" THEN 0
    ELSE LET j == RunEnd(str, i + 1, DigitChars \cup {","})
         IN IF j = i THEN 0
            ELSE IF /\ j + 3 <= Len(str)
                    /\ str[j + 1] = "."
                    /\ str[j + 2] \in DigitChars
                    /\ str[j + 3] \in DigitChars
                 THEN j + 3
                 ELSE j

\* dollarRegex.FindAllString(text, -1) from position i on: the leftmost
\* matches, none overlapping another.
RECURSIVE FindAllDollar(_, _)
FindAllDollar(str, i) ==
    IF i > Len(str) THEN <<>>
    ELSE IF dollarMatchEnd(str, i) = 0 THEN FindAllDollar(str, i + 1)
    ELSE <<SubSeq(str, i, dollarMatchEnd(str, i))>>
            \o FindAllDollar(str, dollarMatchEnd(str, i) + 1)

\* strings.ReplaceAll(strings.TrimPrefix(match, "$"), ",", "")
cleanAmount(match) ==
    RemoveCommas(IF match # <<>> /\ Head(match) = "$" THEN Tail(match) ELSE match)

\* The loop that parses the matches, one that does not parse being skipped.
RECURSIVE parseAmounts(_)
parseAmounts(matches) ==
    IF matches = <<>> THEN <<>>
    ELSE IF ParseFloatOk(cleanAmount(Head(matches)))
         THEN <<ParseFloat(cleanAmount(Head(matches)))>> \o parseAmounts(Tail(matches))
         ELSE parseAmounts(Tail(matches))

\* The loops for the highest and the lowest amount.
RECURSIVE highest(_, _)
highest(amounts, ceoVal) ==
    IF amounts = <<>> THEN ceoVal
    ELSE highest(Tail(amounts), IF Less(ceoVal, Head(amounts)) THEN Head(amounts) ELSE ceoVal)

RECURSIVE lowest(_, _)
lowest(amounts, medianVal) ==
    IF amounts = <<>> THEN medianVal
    ELSE lowest(Tail(amounts),
                IF Less(Head(amounts), medianVal) THEN Head(amounts) ELSE medianVal)

\* CEOPayRatio{Text: text}
TextOnly(str) == [Text |-> str, CEO |-> Finite(0, 0), Median |-> Finite(0, 0)]

\* extractCEOPayRatio taking the first amount as CEO and the second as Median.
extractInTextOrder(str) ==
    LET amounts == parseAmounts(FindAllDollar(str, 1))
    IN IF Len(amounts) < 2 THEN TextOnly(str)
       ELSE [Text |-> str, CEO |-> amounts[1], Median |-> amounts[2]]

\* extractCEOPayRatio giving up on a text without two amounts.
extractOrNothing(str) ==
    LET amounts == parseAmounts(FindAllDollar(str, 1))
    IN IF Len(amounts) < 2 THEN TextOnly(<<>>)
       ELSE [Text |-> str, CEO |-> highest(amounts, amounts[1]),
             Median |-> lowest(amounts, amounts[1])]

extractCEOPayRatio(str) ==
    LET matches == FindAllDollar(str, 1)
        amounts == parseAmounts(matches)
    IN IF Len(matches) < 2 THEN TextOnly(str)
       ELSE IF Len(amounts) < 2 THEN TextOnly(str)
       ELSE [Text |-> str, CEO |-> highest(amounts, amounts[1]),
             Median |-> lowest(amounts, amounts[1])]

\* The words a text is written with: amounts, an amount with one decimal,
\* a "$" with commas only, a bare "$" and a word.
Words ==
    {<<"$", "5">>,
     <<"$", "1", ",", "2">>,
     <<"$", "3", ".", "5", "0">>,
     <<"$", "3", ".", "5">>,
     <<"$", ",">>,
     <<"$">>,
     <<"m", "e", "d", "i", "a", "n">>,
     <<"$", "1", "9", "3", ",", "7", "4", "4">>,
     <<"$", "7", "9", ",", "1", "0", "6", ",", "1", "8", "3">>}

\* The text of the words ws, one space between two words.
RECURSIVE TextOf(_)
TextOf(ws) ==
    IF ws = <<>> THEN <<>>
    ELSE IF Len(ws) = 1 THEN Head(ws)
    ELSE Head(ws) \o <<" ">> \o TextOf(Tail(ws))

RatioInit ==
    /\ pc = "write"
    /\ ParseIdle
    /\ ScaleIdle
    /\ TextIdle
    /\ LeafIdle
    /\ FactsIdle

\* The text gets one more word.
AppendWord ==
    /\ pc = "write"
    /\ Len(tokens) < MaxTokens
    /\ \E w \in Words : tokens' = Append(tokens, w)
    /\ UNCHANGED <<pc, ratio, edgarVars, outsideFacts>>

extractCEOPayRatioCall ==
    /\ pc = "write"
    /\ ratio' = extractCEOPayRatio(TextOf(tokens))
    /\ pc' = "extracted"
    /\ UNCHANGED <<tokens, edgarVars, outsideFacts>>

RatioNext == AppendWord \/ extractCEOPayRatioCall

SpecRatio == RatioInit /\ [][RatioNext]_vars

\* ------------------------------------------- properties: CEO pay ratio
\* The amounts of a text: those of its matches that parse.
Amounts(str) == parseAmounts(FindAllDollar(str, 1))

AmountSet(str) == {Amounts(str)[i] : i \in 1..Len(Amounts(str))}

\* The orders the words of the text can be written in.
Reorderings ==
    {[i \in 1..Len(tokens) |-> tokens[p[i]]] :
        p \in {q \in [1..Len(tokens) -> 1..Len(tokens)] :
                  \A i, j \in 1..Len(tokens) : i # j => q[i] # q[j]}}

\* C12: with two amounts or more in the text, CEO is the highest amount
\* and Median the lowest, and the text of the same words in any other order
\* gives the same CEO and Median.
C12_HighestAndLowestInAnyOrder ==
    (pc = "extracted" /\ Len(Amounts(ratio.Text)) >= 2) =>
        /\ ratio.CEO \in AmountSet(ratio.Text)
        /\ ratio.Median \in AmountSet(ratio.Text)
        /\ \A a \in AmountSet(ratio.Text) : ~Less(ratio.CEO, a) /\ ~Less(a, ratio.Median)
        /\ \A ws \in Reorderings :
              /\ extractCEOPayRatio(TextOf(ws)).CEO = ratio.CEO
              /\ extractCEOPayRatio(TextOf(ws)).Median = ratio.Median

\* "$79,106,183" written before "$193,744": CEO 79106183, Median 193744.
C12_Witness ==
    /\ pc = "extracted"
    /\ Len(tokens) >= 2
    /\ tokens[1] = <<"$", "7", "9", ",", "1", "0", "6", ",", "1", "8", "3">>
    /\ tokens[2] = <<"$", "1", "9", "3", ",", "7", "4", "4">>
    /\ ratio.CEO = Finite(79106183, 0)
    /\ ratio.Median = Finite(193744, 0)

\* C13: with fewer than two amounts that parse, the result keeps the text
\* as it is and leaves CEO and Median zero.
C13_TextKeptWithoutTwoAmounts ==
    (pc = "extracted" /\ Len(Amounts(TextOf(tokens))) < 2) =>
        /\ ratio.Text = TextOf(tokens)
        /\ ratio.CEO = Finite(0, 0)
        /\ ratio.Median = Finite(0, 0)

\* A text with two matches of which one does not parse.
C13_Witness ==
    /\ pc = "extracted"
    /\ Len(FindAllDollar(TextOf(tokens), 1)) >= 2
    /\ Len(Amounts(TextOf(tokens))) = 1
    /\ ratio.Text = TextOf(tokens)
    /\ ratio.Text # <<>>

\* ------------------------------------------------------ dates and sort
\* Is y a leap year, and the days of month mo of year y.
IsLeap(y) == (y % 4 = 0 /\ y % 100 # 0) \/ y % 400 = 0

DaysIn(y, mo) ==
    IF mo = 2 THEN (IF IsLeap(y) THEN 29 ELSE 28)
    ELSE IF mo \in {4, 6, 9, 11} THEN 30
    ELSE 31

\* A time.Time at midnight UTC: year, month and day.
Date(y, mo, d) == [y |-> y, mo |-> mo, d |-> d]

\* time.Time{}: January 1 of year 1.
ZeroTime == Date(1, 1, 1)

\* t.After(u)
After(t, u) ==
    \/ t.y > u.y
    \/ t.y = u.y /\ t.mo > u.mo
    \/ t.y = u.y /\ t.mo = u.mo /\ t.d > u.d

\* time.Parse("2006-01-02", str): four digits, "-", two digits of a month,
\* "-", two digits of a day of that month, and nothing else.
ParseDateOk(str) ==
    /\ Len(str) = 10
    /\ str[5] = "-"
    /\ str[8] = "-"
    /\ IsDigits(SubSeq(str, 1, 4))
    /\ IsDigits(SubSeq(str, 6, 7))
    /\ IsDigits(SubSeq(str, 9, 10))
    /\ DigitsValue(SubSeq(str, 6, 7), 0) \in 1..12
    /\ DigitsValue(SubSeq(str, 9, 10), 0) \in
          1..DaysIn(DigitsValue(SubSeq(str, 1, 4), 0), DigitsValue(SubSeq(str, 6, 7), 0))

ParseDate(str) ==
    Date(DigitsValue(SubSeq(str, 1, 4), 0), DigitsValue(SubSeq(str, 6, 7), 0),
         DigitsValue(SubSeq(str, 9, 10), 0))

\* A nil *ixbrl.Context.
NoContext == [StartDate |-> <<>>, EndDate |-> <<>>, Instant |-> <<>>, nil |-> TRUE]

\* ixbrl.Context{Period: ...}
Period(start, end, instant) ==
    [StartDate |-> start, EndDate |-> end, Instant |-> instant, nil |-> FALSE]

\* getLatestDate taking the start date before the end date.
getStartDateFirst(f) ==
    IF f.Context.nil THEN ZeroTime
    ELSE LET period == f.Context
             dateStr == IF period.StartDate # <<>> THEN period.StartDate
                        ELSE IF period.Instant # <<>> THEN period.Instant
                        ELSE period.EndDate
         IN IF ParseDateOk(dateStr) THEN ParseDate(dateStr) ELSE ZeroTime

getLatestDate(f) ==
    IF f.Context.nil THEN ZeroTime
    ELSE LET period == f.Context
             dateStr == IF period.EndDate # <<>> THEN period.EndDate
                        ELSE IF period.Instant # <<>> THEN period.Instant
                        ELSE period.StartDate
         IN IF ParseDateOk(dateStr) THEN ParseDate(dateStr) ELSE ZeroTime

\* The orders of a slice of length k.
Orders(k) == {p \in [1..k -> 1..k] : \A i, j \in 1..k : i # j => p[i] # p[j]}

\* What sort.Slice can leave in nfs with sortNonFractionsByDate's less: an
\* order of nfs in which no entry comes before one that less puts before
\* it (sort.Slice is not stable, entries of one date end in any order).
sortNonFractionsByDate(nfs) ==
    {[i \in 1..Len(nfs) |-> nfs[p[i]]] :
        p \in {q \in Orders(Len(nfs)) :
                  \A i, j \in 1..Len(nfs) :
                     i < j => ~After(getLatestDate(nfs[q[j]]), getLatestDate(nfs[q[i]]))}}

\* --------------------------------------------------- the employee count
\* strings.Contains(str, sub)
Contains(str, sub) ==
    \E i \in 1..(Len(str) - Len(sub) + 1) : SubSeq(str, i, i + Len(sub) - 1) = sub

\* strings.HasPrefix(str, prefix)
HasPrefix(str, prefix) == Len(str) >= Len(prefix) /\ SubSeq(str, 1, Len(prefix)) = prefix

\* strings.ToLower(str) over ASCII.
LowerOf ==
    ("A" :> "a") @@ ("B" :> "b") @@ ("C" :> "c") @@ ("D" :> "d") @@ ("E" :> "e") @@
    ("F" :> "f") @@ ("G" :> "g") @@ ("H" :> "h") @@ ("I" :> "i") @@ ("J" :> "j") @@
    ("K" :> "k") @@ ("L" :> "l") @@ ("M" :> "m") @@ ("N" :> "n") @@ ("O" :> "o") @@
    ("P" :> "p") @@ ("Q" :> "q") @@ ("R" :> "r") @@ ("S" :> "s") @@ ("T" :> "t") @@
    ("U" :> "u") @@ ("V" :> "v") @@ ("W" :> "w") @@ ("X" :> "x") @@ ("Y" :> "y") @@
    ("Z" :> "z")

ToLower(str) == [i \in 1..Len(str) |-> IF str[i] \in DOMAIN LowerOf THEN LowerOf[str[i]] ELSE str[i]]

EmployeesWord == <<"e", "m", "p", "l", "o", "y", "e", "e", "s">>
DecemberWord == <<"d", "e", "c", "e", "m", "b", "e", "r">>

\* Does [^.,%]*employees match from position i on.
RECURSIVE reachesEmployees(_, _)
reachesEmployees(str, i) ==
    IF i + Len(EmployeesWord) - 1 > Len(str) THEN FALSE
    ELSE IF SubSeq(str, i, i + Len(EmployeesWord) - 1) = EmployeesWord THEN TRUE
    ELSE IF str[i] \in {".", ",", "%"} THEN FALSE
    ELSE reachesEmployees(str, i + 1)

\* The end of the group of the match of ([\d]{1}[\d,]{1,})[^.,%]*employees
\* that starts at i, 0 when there is none: the group is greedy, and a
\* shorter group leaves a digit or a comma more in front of "employees".
RECURSIVE groupEndFrom(_, _, _)
groupEndFrom(str, i, j) ==
    IF j < i + 1 THEN 0
    ELSE IF reachesEmployees(str, j + 1) THEN j
    ELSE groupEndFrom(str, i, j - 1)

employeesGroupEnd(str, i) ==
    IF str[i] \notin DigitChars THEN 0
    ELSE groupEndFrom(str, i, RunEnd(str, i + 1, DigitChars \cup {","}))

\* The end of the whole match, [^.,%]* being greedy: the end of the last
\* "employees" that starts at k or later with no ".", "," or "%" before
\* it, end being the end of the last one met so far.
RECURSIVE lastEmployeesEnd(_, _, _)
lastEmployeesEnd(str, k, end) ==
    IF k + Len(EmployeesWord) - 1 > Len(str) THEN end
    ELSE IF SubSeq(str, k, k + Len(EmployeesWord) - 1) = EmployeesWord
         THEN lastEmployeesEnd(str, k + 1, k + Len(EmployeesWord) - 1)
    ELSE IF str[k] \in {".", ",", "%"} THEN end
    ELSE lastEmployeesEnd(str, k + 1, end)

employeesMatchEnd(str, j) == lastEmployeesEnd(str, j + 1, j)

\* e.FindAllStringSubmatch(t, -1) from position i on: the groups of the
\* leftmost matches, none overlapping another.
RECURSIVE FindAllEmployees(_, _)
FindAllEmployees(str, i) ==
    IF i > Len(str) THEN <<>>
    ELSE IF employeesGroupEnd(str, i) = 0 THEN FindAllEmployees(str, i + 1)
    ELSE <<SubSeq(str, i, employeesGroupEnd(str, i))>>
            \o FindAllEmployees(str, employeesMatchEnd(str, employeesGroupEnd(str, i)) + 1)

\* A group of 4 characters that starts with "20".
YearShaped(group) == HasPrefix(group, <<"2", "0">>) /\ Len(group) = 4

\* The predicate FromEdgar hands to SearchHTML for the employee count.
employeesPredicate(t) ==
    LET match == FindAllEmployees(t, 1)
    IN IF Contains(ToLower(t), DecemberWord) /\ match # <<>> /\ ~YearShaped(match[1])
       THEN match[1]
       ELSE <<>>

\* onlyNumber(str): the digits of str as an integer, 0 without a digit
\* (texts stay below the digits an int holds).
onlyNumber(str) ==
    LET numericStr == SelectSeq(str, LAMBDA c : c \in DigitChars)
    IN IF numericStr = <<>> THEN 0 ELSE Atoi(numericStr)

\* ------------------------------------------------------------ FromEdgar
\* The largest number of documents handed to FromEdgar, with texts and
\* with tagged facts.
MaxTextDocs == 2
MaxFactDocs == 3

\* A nil *Facts, and the record FromEdgar starts from.  A pointer field is
\* a sequence: empty for nil, of one entry otherwise.
NoFacts == <<>>

\* The record with the identifier in both fields.
NewFactsWithEIN(cik, ticker, companyName) ==
    [CIK |-> cik, EIN |-> cik, Ticker |-> ticker, CompanyName |-> companyName,
     Filings |-> <<>>, NetIncomeLoss |-> <<>>, Buybacks |-> <<>>,
     ExecCompensationHTML |-> <<>>, CEOPayRatio |-> <<>>, Cash |-> <<>>,
     EmployeesCount |-> 0, TotalRevenue |-> 0, TotalExpenses |-> 0,
     NetAssets |-> <<>>, WorkerPay |-> <<>>]

NewFacts(cik, ticker, companyName) ==
    [CIK |-> cik, EIN |-> "", Ticker |-> ticker, CompanyName |-> companyName,
     Filings |-> <<>>, NetIncomeLoss |-> <<>>, Buybacks |-> <<>>,
     ExecCompensationHTML |-> <<>>, CEOPayRatio |-> <<>>, Cash |-> <<>>,
     EmployeesCount |-> 0, TotalRevenue |-> 0, TotalExpenses |-> 0,
     NetAssets |-> <<>>, WorkerPay |-> <<>>]

\* What FromEdgar's calls find in a document: whether ixbrl.Parse fails,
\* the result of each ixbrl.Search (nil or a fact), the leaf nodes with
\* text that SearchHTML visits, in document order, each with the text
\* FindNextLeafNodes(node, 700) gives, the printed tables of FindTables,
\* and the filing.
Document(parseFails, repurchase, revenue, cash, leaves, tables, filing) ==
    [err |-> parseFails, stockRepurchase |-> repurchase, netRevenue |-> revenue, cash |-> cash,
     leaves |-> leaves, tables |-> tables, Filing |-> filing]

CeoPayRatioWords == <<"c", "e", "o", " ", "p", "a", "y", " ", "r", "a", "t", "i", "o">>
MedianWord == <<"m", "e", "d", "i", "a", "n">>

\* ixbrl.SearchHTML(doc, predicate) for the CEO pay ratio: the leaves
\* whose text holds "ceo pay ratio".
RatioMatches(leaves) ==
    SelectSeq(leaves, LAMBDA l : Contains(ToLower(l.text), CeoPayRatioWords))

\* The loop over ratios, cur being facts.CEOPayRatio.
RECURSIVE ratiosLoop(_, _)
ratiosLoop(ratios, cur) ==
    IF ratios = <<>> THEN cur
    ELSE LET leafText == Head(ratios).next
             ceoRatio == extractCEOPayRatio(leafText)
         IN IF /\ Contains(leafText, <<"$">>)
               /\ Contains(leafText, MedianWord)
               /\ cur = <<>>
               /\ ceoRatio.Text # <<>>
            THEN <<ceoRatio>>
            ELSE ratiosLoop(Tail(ratios), cur)

\* ixbrl.SearchHTML(doc, predicate) for the employee count: the Text of
\* the matches, the leaves the predicate gives "" for being left out.
RECURSIVE EmployeeMatches(_)
EmployeeMatches(leaves) ==
    IF leaves = <<>> THEN <<>>
    ELSE LET match == employeesPredicate(Head(leaves).text)
         IN IF match # <<>> THEN <<match>> \o EmployeeMatches(Tail(leaves))
            ELSE EmployeeMatches(Tail(leaves))

\* The loop over employees overwriting the count with every match.
RECURSIVE employeesLoopLast(_, _)
employeesLoopLast(employees, count) ==
    IF employees = <<>> THEN count
    ELSE employeesLoopLast(Tail(employees), onlyNumber(Head(employees)))

\* The loop over employees, count being facts.EmployeesCount.
RECURSIVE employeesLoop(_, _)
employeesLoop(employees, count) ==
    IF employees = <<>> THEN count
    ELSE employeesLoop(Tail(employees),
                       IF count = 0 THEN onlyNumber(Head(employees)) ELSE count)

\* The body of the loop putting what f holds in place of the entries.
processDocumentReplacing(fs, f) ==
    [fs EXCEPT
        !.Buybacks = f.stockRepurchase,
        !.NetIncomeLoss = f.netRevenue,
        !.Cash = f.cash,
        !.CEOPayRatio = ratiosLoop(RatioMatches(f.leaves), @),
        !.EmployeesCount = employeesLoop(EmployeeMatches(f.leaves), @),
        !.ExecCompensationHTML = f.tables,
        !.Filings = <<f.Filing>>]

\* The body of FromEdgar's loop for a document f that parses.
processDocument(fs, f) ==
    [fs EXCEPT
        !.Buybacks = @ \o f.stockRepurchase,
        !.NetIncomeLoss = @ \o f.netRevenue,
        !.Cash = @ \o f.cash,
        !.CEOPayRatio = ratiosLoop(RatioMatches(f.leaves), @),
        !.EmployeesCount = employeesLoop(EmployeeMatches(f.leaves), @),
        !.ExecCompensationHTML = @ \o f.tables,
        !.Filings = Append(@, f.Filing)]

\* The leaves of the documents: headings of a pay ratio with the text that
\* follows them, and sentences about employees.
Leaves ==
    {[text |-> <<"C", "E", "O", " ", "P", "a", "y", " ", "R", "a", "t", "i", "o">>,
      next |-> <<"m", "e", "d", "i", "a", "n", " ", "$", "5", " ", "$", "1", ",", "2">>],
     [text |-> <<"c", "e", "o", " ", "p", "a", "y", " ", "r", "a", "t", "i", "o">>,
      next |-> <<"m", "e", "d", "i", "a", "n", " ", "$", "3", ".", "5", "0">>],
     [text |-> <<"c", "e", "o", " ", "p", "a", "y", " ", "r", "a", "t", "i", "o">>,
      next |-> <<"$", "5", " ", "$", "1", ",", "2">>],
     [text |-> <<"1", "2", " ", "e", "m", "p", "l", "o", "y", "e", "e", "s", " ", "d", "e", "c", "e", "m", "b", "e", "r">>,
      next |-> <<>>],
     [text |-> <<"2", "0", "2", "4", " ", "e", "m", "p", "l", "o", "y", "e", "e", "s", ".", " ", "1", "2", " ", "e", "m", "p", "l", "o", "y", "e", "e", "s", " ", "d", "e", "c", "e", "m", "b", "e", "r">>,
      next |-> <<>>],
     [text |-> <<"0", "0", " ", "e", "m", "p", "l", "o", "y", "e", "e", "s", " ", "d", "e", "c", "e", "m", "b", "e", "r">>,
      next |-> <<>>],
     [text |-> <<"w", "e", " ", "h", "a", "d", " ", "a", "p", "p", "r", "o", "x", "i", "m", "a", "t", "e", "l", "y", " ", "2", "2", "1", ",", "0", "0", "0", " ", "e", "m", "p", "l", "o", "y", "e", "e", "s", " ", "a", "s", " ", "o", "f", " ", "D", "e", "c", "e", "m", "b", "e", "r", " ", "3", "1", ",", " ", "2", "0", "2", "3">>,
      next |-> <<>>],
     [text |-> <<"3", "4", " ", "e", "m", "p", "l", "o", "y", "e", "e", "s">>,
      next |-> <<>>]}

RatioLeaves == {l \in Leaves : Contains(ToLower(l.text), CeoPayRatioWords)}
DecemberLeaves == {l \in Leaves : Contains(ToLower(l.text), DecemberWord)}

\* Documents without a tagged fact: of no leaf, of one leaf, of two
\* different pay ratio headings, of two different sentences about employees
\* in December, and of a heading followed by such a sentence.
TextDocs ==
    {Document(FALSE, <<>>, <<>>, <<>>, ls, <<>>, "10-K") :
        ls \in {<<>>}
               \cup {<<l>> : l \in Leaves}
               \cup {p \in RatioLeaves \X RatioLeaves : p[1] # p[2]}
               \cup {p \in DecemberLeaves \X DecemberLeaves : p[1] # p[2]}
               \cup {<<k, l>> : k \in {r \in RatioLeaves : Contains(r.next, MedianWord)},
                                l \in {d \in DecemberLeaves : onlyNumber(employeesPredicate(d.text)) > 0}}}

EdgarInit ==
    /\ pc = "call"
    /\ ParseIdle
    /\ ScaleIdle
    /\ TextIdle
    /\ LeafIdle
    /\ FactsIdle

\* FromEdgar(cik, ticker, companyName, filingDocs) up to its loop.
FromEdgarCall ==
    /\ pc = "call"
    /\ \E cik \in {"", "0000320193"} :
          facts' = NewFacts(cik, "AAPL", "Apple Inc.")
    /\ pc' = "documents"
    /\ UNCHANGED <<filingDocs, ratioVars, outsideFacts>>

\* What a pass of FromEdgar's loop leaves alone.
outsideLoop == <<ratioVars, parseVars, scaleVars, text, leafVars, xmlData, passes, returnDoc,
                 serverVars>>

\* A pass of the loop going on to the next document after a document
\* that ixbrl.Parse fails on.
FromEdgarDocumentSkipping(docs, max) ==
    /\ pc = "documents"
    /\ Len(filingDocs) < max
    /\ \E f \in docs :
          /\ filingDocs' = Append(filingDocs, f)
          /\ facts' = IF f.err THEN facts ELSE processDocument(facts, f)
          /\ UNCHANGED <<pc, err>>
    /\ UNCHANGED outsideLoop

\* One pass of the loop: the next document is one of docs.  A document
\* that ixbrl.Parse fails on ends the call with nil and the error of
\* ixbrl.Parse.
FromEdgarDocument(docs, max) ==
    /\ pc = "documents"
    /\ Len(filingDocs) < max
    /\ \E f \in docs :
          /\ filingDocs' = Append(filingDocs, f)
          /\ IF f.err
             THEN facts' = NoFacts /\ err' = "read error" /\ pc' = "failed"
             ELSE facts' = processDocument(facts, f) /\ UNCHANGED <<pc, err>>
    /\ UNCHANGED outsideLoop

\* After the last document: the three sorts, and the return.
FromEdgarReturn ==
    /\ pc = "documents"
    /\ \E income \in sortNonFractionsByDate(facts.NetIncomeLoss),
          buybacks \in sortNonFractionsByDate(facts.Buybacks),
          cash \in sortNonFractionsByDate(facts.Cash) :
          facts' = [facts EXCEPT !.NetIncomeLoss = income, !.Buybacks = buybacks,
                                 !.Cash = cash]
    /\ pc' = "returned"
    /\ UNCHANGED <<filingDocs, ratioVars, outsideFacts>>

TextDocument == FromEdgarDocument(TextDocs, MaxTextDocs)

EdgarTextNext == FromEdgarCall \/ TextDocument \/ FromEdgarReturn

SpecEdgarText == EdgarInit /\ [][EdgarTextNext]_vars

\* Date strings: three year ends, a day February does not have, and a
\* word that is no date.
D2021 == <<"2", "0", "2", "1", "-", "1", "2", "-", "3", "1">>
D2022 == <<"2", "0", "2", "2", "-", "1", "2", "-", "3", "1">>
D2023 == <<"2", "0", "2", "3", "-", "1", "2", "-", "3", "1">>
BadDay == <<"2", "0", "2", "3", "-", "0", "2", "-", "3", "0">>
NoDate == <<"n", "/", "a">>

\* A tagged fact: *ixbrl.NonFraction.
NonFraction(content, scaleAttr, context) ==
    [Content |-> content, Scale |-> scaleAttr, Context |-> context]

\* The facts ixbrl.Search finds for us-gaap:NetIncomeLoss: one without a
\* context, and periods with an end date, with an instant only, with a
\* start date only, with an end date that does not parse beside an
\* instant, and with a start date later than the end date.
RevenueFacts ==
    {NonFraction(<<"1">>, <<"0">>, c) :
        c \in {NoContext,
               Period(<<>>, D2021, <<>>),
               Period(<<>>, D2022, <<>>),
               Period(<<>>, D2023, <<>>),
               Period(<<>>, <<>>, D2022),
               Period(D2023, <<>>, <<>>),
               Period(<<>>, BadDay, D2023),
               Period(<<>>, NoDate, <<>>),
               Period(D2023, D2021, <<>>)}}

\* Documents with a tagged fact: one net income fact each, or a buyback, a
\* cash fact and a table; and a document ixbrl.Parse fails on.
FactDocs ==
    {Document(FALSE, <<>>, <<f>>, <<>>, <<>>, <<>>, "10-K") : f \in RevenueFacts}
    \cup {Document(FALSE, <<NonFraction(<<"2">>, <<"0">>, Period(<<>>, d, <<>>))>>, <<>>,
                   <<NonFraction(<<"3">>, <<"0">>, Period(<<>>, <<>>, d))>>, <<>>,
                   <<"<table>">>, "10-Q") : d \in {D2021, D2022}}
    \cup {Document(TRUE, <<>>, <<>>, <<>>, <<>>, <<>>, "8-K")}

FactDocument == FromEdgarDocument(FactDocs, MaxFactDocs)

EdgarFactsNext == FromEdgarCall \/ FactDocument \/ FromEdgarReturn

SpecEdgarFacts == EdgarInit /\ [][EdgarFactsNext]_vars

\* ------------------------------------------------- properties: FromEdgar
\* What the extraction of document f alone gives for the two scalar fields.
AloneCount(f) == employeesLoop(EmployeeMatches(f.leaves), 0)
AloneRatio(f) == ratiosLoop(RatioMatches(f.leaves), <<>>)

\* The first of values that differs from unset, unset when none does.
RECURSIVE FirstSet(_, _)
FirstSet(values, unset) ==
    IF values = <<>> THEN unset
    ELSE IF Head(values) # unset THEN Head(values)
    ELSE FirstSet(Tail(values), unset)

SetsCount(f) == AloneCount(f) # 0
SetsRatio(f) == AloneRatio(f) # <<>>

\* A call that has not failed.
Filling == pc \in {"documents", "returned"}

\* C14: in the record returned, a scalar field has the value of the first
\* document, in processing order, whose extraction sets it (to a count
\* that is not 0, to a ratio that is not nil).
FirstWriterWins ==
    pc = "returned" =>
        /\ facts.EmployeesCount =
              FirstSet([i \in 1..Len(filingDocs) |-> AloneCount(filingDocs[i])], 0)
        /\ facts.CEOPayRatio =
              FirstSet([i \in 1..Len(filingDocs) |-> AloneRatio(filingDocs[i])], <<>>)

\* C14: no step of the call changes a scalar field that is set.
SetFieldsStay ==
    (Filling /\ facts' # NoFacts) =>
        /\ facts.EmployeesCount # 0 => facts'.EmployeesCount = facts.EmployeesCount
        /\ facts.CEOPayRatio # <<>> => facts'.CEOPayRatio = facts.CEOPayRatio

\* C14: EmployeesCount and CEOPayRatio are first-writer-wins across the
\* documents of one FromEdgar call: once an extraction has set the field,
\* no later window or document changes it, and the final value is the one
\* of the first document, in processing order, whose extraction set it.
C14_FirstWriterWins == [](FirstWriterWins) /\ [][SetFieldsStay]_vars

\* Two documents that each set both fields, to different values; the
\* record returned holds those of the first.
C14_Witness ==
    /\ pc = "returned"
    /\ Len(filingDocs) = 2
    /\ SetsCount(filingDocs[1]) /\ SetsCount(filingDocs[2])
    /\ SetsRatio(filingDocs[1]) /\ SetsRatio(filingDocs[2])
    /\ AloneCount(filingDocs[1]) # AloneCount(filingDocs[2])
    /\ AloneRatio(filingDocs[1]) # AloneRatio(filingDocs[2])
    /\ facts.EmployeesCount = AloneCount(filingDocs[1])
    /\ facts.CEOPayRatio = AloneRatio(filingDocs[1])

\* The first run of a text with "december" that precedes "employees" and
\* is not year-shaped, <<>> when there is none.
FirstQualifyingRun(t) ==
    LET runs == SelectSeq(FindAllEmployees(t, 1), LAMBDA g : ~YearShaped(g))
    IN IF Contains(ToLower(t), DecemberWord) /\ runs # <<>> THEN runs[1] ELSE <<>>

\* The texts of the processed documents, in processing and document order.
RECURSIVE TextsOf(_)
TextsOf(fs) ==
    IF fs = <<>> THEN <<>>
    ELSE [i \in 1..Len(Head(fs).leaves) |-> Head(fs).leaves[i].text] \o TextsOf(Tail(fs))

\* C15: the employee count returned is that of the first run preceding
\* "employees" that is not year-shaped, over the texts with "december" in
\* document order, its digits read as an integer (a count of 0 leaving the
\* field unset).
C15_FirstQualifyingRunWins ==
    pc = "returned" =>
        facts.EmployeesCount =
            FirstSet([i \in 1..Len(TextsOf(filingDocs)) |->
                         onlyNumber(FirstQualifyingRun(TextsOf(filingDocs)[i]))], 0)

\* ------------------------------------------------- irsform.Parse, FromIRS

\* The decimal digits of a number that is not negative.
RECURSIVE Digits(_)
Digits(n) ==
    LET last == CHOOSE c \in DigitChars : DigitValue[c] = n % 10
    IN IF n < 10 THEN <<last>> ELSE Append(Digits(n \div 10), last)

\* strconv.Itoa(val)
Itoa(val) == IF val < 0 THEN <<"-">> \o Digits(-val) ELSE Digits(val)

\* The digits of n, with zeros in front up to width.
RECURSIVE Padded(_, _)
Padded(str, width) == IF Len(str) >= width THEN str ELSE Padded(<<"0">> \o str, width)

\* t.Format("2006-01-02")
Format(t) ==
    Padded(Digits(t.y), 4) \o <<"-">> \o Padded(Digits(t.mo), 2) \o <<"-">>
    \o Padded(Digits(t.d), 2)

\* The last day of the month before t's.
EndOfMonthBefore(t) ==
    IF t.mo > 1 THEN Date(t.y, t.mo - 1, DaysIn(t.y, t.mo - 1))
    ELSE Date(t.y - 1, 12, 31)

\* t.Add(-n * 24 * time.Hour): within t's month, or t.d days back to the
\* end of the month before and the rest from there.
RECURSIVE DaysBefore(_, _)
DaysBefore(t, n) ==
    IF n < t.d THEN Date(t.y, t.mo, t.d - n)
    ELSE DaysBefore(EndOfMonthBefore(t), n - t.d)

\* minusOneYear(date): the start and the end of the year before.
minusOneYear(date) ==
    IF ~ParseDateOk(date) THEN <<<<>>, <<>>>>
    ELSE <<Format(DaysBefore(ParseDate(date), 365)), Format(DaysBefore(ParseDate(date), 1))>>

\* valueToIxFraction writing the value without its sign.
valueToIxFractionUnsigned(val, start, end) ==
    NonFraction(Digits(IF val < 0 THEN -val ELSE val), <<"0">>, Period(start, end, <<>>))

valueToIxFraction(val, start, end) ==
    NonFraction(Itoa(val), <<"0">>, Period(start, end, <<>>))

\* irsExecComp(execs): a table with a row of name, title and the sum of
\* the two compensation amounts for each officer.
irsExecComp(execs) ==
    <<"<table>",
      [i \in 1..Len(execs) |->
          <<execs[i].PersonNm, execs[i].TitleTxt,
            execs[i].ReportableCompFromOrgAmt + execs[i].OtherCompensationAmt>>]>>

\* ReturnHeader
ReturnHeader(returnTypeCd, businessName, begin, end) ==
    [ReturnTypeCd |-> returnTypeCd, BusinessNameLine1Txt |-> businessName,
     TaxPeriodBeginDt |-> begin, TaxPeriodEndDt |-> end]

\* *Return: the header, the dynamic type of ReturnData and the pointer in
\* it (IRS990, IRS990EZ or IRS990PF: empty for nil).
Return(header, type, form) ==
    <<[ReturnHeader |-> header, ReturnData |-> [type |-> type, form |-> form]]>>

\* SupportedReturnTypes, and IsSupportedReturnType(returnType).
SupportedReturnTypes == <<"990", "990EZ">>

IsSupportedReturnType(returnType) ==
    \E i \in 1..Len(SupportedReturnTypes) : SupportedReturnTypes[i] = returnType

\* What irsform.Parse returns: the *Return, the error, and the
\* xml.Unmarshal calls made.
Parsed(ret, e, calls) == [ret |-> ret, err |-> e, passes |-> calls]

SecondPass == [c \in {"990", "990EZ", "990PF"} |-> "Return" \o c]

\* irsform.Parse going on to the switch with an empty return type code.
ParseWithoutTypeCheck(x) ==
    IF x.readFails THEN Parsed(<<>>, "failed to read input", <<>>)
    ELSE IF x.malformed
    THEN Parsed(<<>>, "failed to parse return header", <<"HeaderOnlyReturn">>)
    ELSE LET cd == x.ReturnHeader.ReturnTypeCd
         IN IF cd \in DOMAIN SecondPass
            THEN IF x.forms[cd] # <<>> /\ x.forms[cd][1].bad
                 THEN Parsed(<<>>, "failed to unmarshal Return with ReturnData" \o cd,
                             <<"HeaderOnlyReturn", SecondPass[cd]>>)
                 ELSE Parsed(Return(x.ReturnHeader, "ReturnData" \o cd, x.forms[cd]), "",
                             <<"HeaderOnlyReturn", SecondPass[cd]>>)
            ELSE Parsed(<<>>, "unsupported return type", <<"HeaderOnlyReturn">>)

\* irsform.Parse decoding every supported return as a Form 990.
ParseAs990(x) ==
    IF x.readFails THEN Parsed(<<>>, "failed to read input", <<>>)
    ELSE IF x.malformed
    THEN Parsed(<<>>, "failed to parse return header", <<"HeaderOnlyReturn">>)
    ELSE IF x.ReturnHeader.ReturnTypeCd = ""
    THEN Parsed(<<>>, "ReturnTypeCd is empty in header", <<"HeaderOnlyReturn">>)
    ELSE LET cd == x.ReturnHeader.ReturnTypeCd
         IN IF cd \in DOMAIN SecondPass
            THEN IF x.forms["990"] # <<>> /\ x.forms["990"][1].bad
                 THEN Parsed(<<>>, "failed to unmarshal Return with ReturnData990",
                             <<"HeaderOnlyReturn", SecondPass["990"]>>)
                 ELSE Parsed(Return(x.ReturnHeader, "ReturnData990", x.forms["990"]), "",
                             <<"HeaderOnlyReturn", SecondPass["990"]>>)
            ELSE Parsed(<<>>, "unsupported return type", <<"HeaderOnlyReturn">>)

\* irsform.Parse(r): the header is decoded first; an empty return type
\* code ends the call; the whole return is decoded again with the payload
\* type the code names.  The second decoding fails on a form of that
\* type with a value its field cannot take.
irsformParse(x) ==
    IF x.readFails THEN Parsed(<<>>, "failed to read input", <<>>)
    ELSE IF x.malformed
    THEN Parsed(<<>>, "failed to parse return header", <<"HeaderOnlyReturn">>)
    ELSE IF x.ReturnHeader.ReturnTypeCd = ""
    THEN Parsed(<<>>, "ReturnTypeCd is empty in header", <<"HeaderOnlyReturn">>)
    ELSE LET cd == x.ReturnHeader.ReturnTypeCd
         IN IF cd \in DOMAIN SecondPass
            THEN IF x.forms[cd] # <<>> /\ x.forms[cd][1].bad
                 THEN Parsed(<<>>, "failed to unmarshal Return with ReturnData" \o cd,
                             <<"HeaderOnlyReturn", SecondPass[cd]>>)
                 ELSE Parsed(Return(x.ReturnHeader, "ReturnData" \o cd, x.forms[cd]), "",
                             <<"HeaderOnlyReturn", SecondPass[cd]>>)
            ELSE Parsed(<<>>, "unsupported return type", <<"HeaderOnlyReturn">>)

\* What FromIRS returns: the *Facts and the error.
Extracted(fs, e) == [facts |-> fs, err |-> e]

\* FromIRS's case for a Form 990.
from990(fs, header, irs990) ==
    LET begin == header.TaxPeriodBeginDt
        end == header.TaxPeriodEndDt
        previousYear == minusOneYear(begin)
    IN [fs EXCEPT
          !.EmployeesCount = irs990.TotalEmployeeCnt,
          !.NetIncomeLoss =
              Append(@, valueToIxFraction(irs990.CYTotalRevenueAmt - irs990.CYTotalExpensesAmt,
                                          begin, end)),
          !.NetAssets = <<valueToIxFraction(irs990.NetAssetsOrFundBalancesEOYAmt, begin, end)>>,
          !.CompanyName =
              IF @ = "" /\ irs990.PrincipalOfcrBusinessName # "" THEN irs990.PrincipalOfcrBusinessName
              ELSE @,
          !.ExecCompensationHTML = Append(@, irsExecComp(irs990.Form990PartVIISectionAGrp)),
          !.WorkerPay =
              @ \o <<valueToIxFraction(irs990.CYSalariesCompEmpBnftPaidAmt, begin, end),
                     valueToIxFraction(irs990.PYSalariesCompEmpBnftPaidAmt,
                                       previousYear[1], previousYear[2])>>]

\* FromIRS's case for a Form 990-EZ.
from990EZ(fs, header, irs990ez) ==
    [fs EXCEPT
        !.NetIncomeLoss =
            Append(@, valueToIxFraction(irs990ez.TotalRevenueAmt - irs990ez.TotalExpensesAmt,
                                        header.TaxPeriodBeginDt, header.TaxPeriodEndDt)),
        !.NetAssets = <<valueToIxFraction(irs990ez.NetAssetsOrFundBalancesEOYAmt,
                                          header.TaxPeriodBeginDt, header.TaxPeriodEndDt)>>]

\* The switch handing out the record beside the error of a missing form.
switchKeepingRecord(ret) ==
    LET header == ret.ReturnHeader
        data == ret.ReturnData
        fs == NewFacts("", "", header.BusinessNameLine1Txt)
    IN IF data.type = "ReturnData990"
       THEN IF data.form = <<>> THEN Extracted(fs, "invalid return data: missing IRS990")
            ELSE Extracted(from990(fs, header, data.form[1]), "")
       ELSE IF data.type = "ReturnData990EZ"
       THEN IF data.form = <<>> THEN Extracted(fs, "invalid return data: missing IRS990EZ")
            ELSE Extracted(from990EZ(fs, header, data.form[1]), "")
       ELSE IF data.type = "ReturnData990PF"
       THEN IF data.form = <<>> THEN Extracted(fs, "invalid return data: missing IRS990PF")
            ELSE Extracted(fs, "")
       ELSE Extracted(NoFacts, "unsupported return type")

\* FromIRS up to its sorts: the record the switch leaves, or the error.
switchReturnData(ret) ==
    LET header == ret.ReturnHeader
        data == ret.ReturnData
        fs == NewFacts("", "", header.BusinessNameLine1Txt)
    IN IF data.type = "ReturnData990"
       THEN IF data.form = <<>> THEN Extracted(NoFacts, "invalid return data: missing IRS990")
            ELSE Extracted(from990(fs, header, data.form[1]), "")
       ELSE IF data.type = "ReturnData990EZ"
       THEN IF data.form = <<>> THEN Extracted(NoFacts, "invalid return data: missing IRS990EZ")
            ELSE Extracted(from990EZ(fs, header, data.form[1]), "")
       ELSE IF data.type = "ReturnData990PF"
       THEN IF data.form = <<>> THEN Extracted(NoFacts, "invalid return data: missing IRS990PF")
            ELSE Extracted(fs, "")
       ELSE Extracted(NoFacts, "unsupported return type")

\* The sorts at FromIRS's end: what they can leave in the record.
sortedSeries(fs) ==
    {[fs EXCEPT !.NetIncomeLoss = income, !.Buybacks = buybacks, !.Cash = cash] :
        income \in sortNonFractionsByDate(fs.NetIncomeLoss),
        buybacks \in sortNonFractionsByDate(fs.Buybacks),
        cash \in sortNonFractionsByDate(fs.Cash)}

\* FromIRS(returnDoc): the results it can have.
FromIRS(ret) ==
    IF ret = <<>> THEN {Extracted(NoFacts, "invalid return data: nil return document")}
    ELSE LET switched == switchReturnData(ret[1])
         IN IF switched.err # "" THEN {switched}
            ELSE {Extracted(fs, "") : fs \in sortedSeries(switched.facts)}

\* The dates of a return header: the start and the end of a tax year,
\* an end before the start, a word that is no date, and none.
Y2023Begin == <<"2", "0", "2", "3", "-", "0", "1", "-", "0", "1">>
LeapBegin == <<"2", "0", "2", "4", "-", "0", "3", "-", "0", "1">>
EarlyEnd == <<"2", "0", "2", "1", "-", "0", "6", "-", "3", "0">>
BeginDates == {<<>>, Y2023Begin, LeapBegin, NoDate}
EndDates == {<<>>, D2023, EarlyEnd, NoDate}

ReturnTypeCodes == {"", "990", "990EZ", "990PF", "1120"}

Headers ==
    {ReturnHeader(cd, name, begin, end) :
        cd \in ReturnTypeCodes, name \in {"", "Test Organization Inc"},
        begin \in BeginDates, end \in EndDates}

\* A Form 990 of the return, and one with a value xml.Unmarshal rejects.
IRS990(isBad, officerBusiness, expenses) ==
    [bad |-> isBad, TotalEmployeeCnt |-> 250, CYTotalRevenueAmt |-> 5000,
     CYTotalExpensesAmt |-> expenses, NetAssetsOrFundBalancesEOYAmt |-> 1200,
     PrincipalOfcrBusinessName |-> officerBusiness,
     Form990PartVIISectionAGrp |->
         <<[PersonNm |-> "John Doe", TitleTxt |-> "President",
            ReportableCompFromOrgAmt |-> 100, OtherCompensationAmt |-> 20]>>,
     CYSalariesCompEmpBnftPaidAmt |-> 300, PYSalariesCompEmpBnftPaidAmt |-> 280]

IRS990EZ(isBad) ==
    [bad |-> isBad, TotalRevenueAmt |-> 4500, TotalExpensesAmt |-> 5000,
     NetAssetsOrFundBalancesEOYAmt |-> 70]

IRS990PF == [bad |-> FALSE]

\* The forms in the ReturnData element of a return, by return type.
Forms(irs990, irs990ez, irs990pf) ==
    [c \in {"990", "990EZ", "990PF"} |->
        IF c = "990" THEN irs990 ELSE IF c = "990EZ" THEN irs990ez ELSE irs990pf]

Payloads ==
    {Forms(<<>>, <<>>, <<>>),
     Forms(<<IRS990(FALSE, "", 4500)>>, <<>>, <<>>),
     Forms(<<IRS990(FALSE, "Officer Org", 5600)>>, <<>>, <<>>),
     Forms(<<IRS990(TRUE, "", 4500)>>, <<>>, <<>>),
     Forms(<<>>, <<IRS990EZ(FALSE)>>, <<>>),
     Forms(<<IRS990(FALSE, "", 4500)>>, <<IRS990EZ(FALSE)>>, <<>>),
     Forms(<<>>, <<>>, <<IRS990PF>>)}

\* The returns handed to irsform.Parse: a reader that fails, XML that is
\* not well formed, and returns of every header and payload.
XMLReturn(readFails, isMalformed, header, forms) ==
    [readFails |-> readFails, malformed |-> isMalformed, ReturnHeader |-> header,
     forms |-> forms]

Returns ==
    {XMLReturn(FALSE, FALSE, h, p) : h \in Headers, p \in Payloads}
    \cup {XMLReturn(r, ~r, ReturnHeader("990", "", <<>>, <<>>), Forms(<<>>, <<>>, <<>>)) :
             r \in BOOLEAN}

\* Arguments of FromIRS that irsform.Parse does not build: nil, and a
\* Return without ReturnData.
DirectReturns == {<<>>, Return(ReturnHeader("990", "", <<>>, <<>>), "nil", <<>>)}

EINs == {"131624100"}

\* The caller reads the XML of a return.
ReadReturn ==
    /\ pc = "call"
    /\ xmlData' \in {<<x>> : x \in Returns}
    /\ pc' = "parse"
    /\ UNCHANGED <<facts, passes, returnDoc, err, outsideIRS>>

\* returnData, err := irsform.Parse(reader)
irsformParseCall ==
    /\ pc = "parse"
    /\ LET parsed == irsformParse(xmlData[1])
       IN /\ returnDoc' = parsed.ret
          /\ err' = parsed.err
          /\ passes' = parsed.passes
          /\ pc' = IF parsed.err # "" THEN "failed" ELSE "parsed"
    /\ UNCHANGED <<facts, xmlData, outsideIRS>>

\* A caller with a Return of its own making.
MakeReturn ==
    /\ pc = "call"
    /\ returnDoc' \in DirectReturns
    /\ pc' = "parsed"
    /\ UNCHANGED <<facts, xmlData, passes, err, outsideIRS>>

\* factData, err := facts.FromIRS(returnData)
FromIRSCall ==
    /\ pc = "parsed"
    /\ \E extracted \in FromIRS(returnDoc) :
          /\ facts' = extracted.facts
          /\ err' = extracted.err
          /\ pc' = IF extracted.err # "" THEN "failed" ELSE "fromIRS"
    /\ UNCHANGED <<xmlData, passes, returnDoc, outsideIRS>>

\* factData.EIN = ein
SetEIN ==
    /\ pc = "fromIRS"
    /\ \E ein \in EINs : facts' = [facts EXCEPT !.EIN = ein]
    /\ pc' = "stored"
    /\ UNCHANGED <<xmlData, passes, returnDoc, err, outsideIRS>>

IRSNext == ReadReturn \/ irsformParseCall \/ MakeReturn \/ FromIRSCall \/ SetEIN

SpecIRS == EdgarInit /\ [][IRSNext]_vars

FactsNext == EdgarFactsNext \/ IRSNext

\* irsform.Parse step by step.  The position of the call is pc: "parse"
\* at entry, "HeaderParsed" after the header pass, "PayloadDispatched" in
\* the case of the switch the return type code selects, "Decoded" at the
\* return of the Return, "Failed" at the return of an error.

\* The header pass with the payload decoded in it.
parseHeaderAndPayload ==
    /\ pc = "parse"
    /\ LET x == xmlData[1]
       IN IF x.readFails
          THEN /\ err' = "failed to read input"
               /\ pc' = "Failed"
               /\ UNCHANGED passes
          ELSE IF x.malformed
          THEN /\ passes' = <<"HeaderOnlyReturn">>
               /\ err' = "failed to parse return header"
               /\ pc' = "Failed"
          ELSE /\ passes' = <<"HeaderOnlyReturn", "Return990">>
               /\ pc' = "HeaderParsed"
               /\ UNCHANGED err
    /\ UNCHANGED <<facts, xmlData, returnDoc, outsideIRS>>

\* io.ReadAll(r) and the first xml.Unmarshal, into HeaderOnlyReturn.
parseHeader ==
    /\ pc = "parse"
    /\ LET x == xmlData[1]
       IN IF x.readFails
          THEN /\ err' = "failed to read input"
               /\ pc' = "Failed"
               /\ UNCHANGED passes
          ELSE IF x.malformed
          THEN /\ passes' = <<"HeaderOnlyReturn">>
               /\ err' = "failed to parse return header"
               /\ pc' = "Failed"
          ELSE /\ passes' = <<"HeaderOnlyReturn">>
               /\ pc' = "HeaderParsed"
               /\ UNCHANGED err
    /\ UNCHANGED <<facts, xmlData, returnDoc, outsideIRS>>

\* The test of the return type code and the switch on it.
dispatchPayload ==
    /\ pc = "HeaderParsed"
    /\ LET cd == xmlData[1].ReturnHeader.ReturnTypeCd
       IN IF cd = ""
          THEN err' = "ReturnTypeCd is empty in header" /\ pc' = "Failed"
          ELSE IF cd \in DOMAIN SecondPass
          THEN pc' = "PayloadDispatched" /\ UNCHANGED err
          ELSE err' = "unsupported return type" /\ pc' = "Failed"
    /\ UNCHANGED <<facts, xmlData, passes, returnDoc, outsideIRS>>

\* The second xml.Unmarshal, of the whole buffer, and the return.
decodePayload ==
    /\ pc = "PayloadDispatched"
    /\ LET x == xmlData[1]
           cd == x.ReturnHeader.ReturnTypeCd
       IN /\ passes' = Append(passes, SecondPass[cd])
          /\ IF x.forms[cd] # <<>> /\ x.forms[cd][1].bad
             THEN /\ err' = "failed to unmarshal Return with ReturnData" \o cd
                  /\ pc' = "Failed"
                  /\ UNCHANGED returnDoc
             ELSE /\ returnDoc' = Return(x.ReturnHeader, "ReturnData" \o cd, x.forms[cd])
                  /\ pc' = "Decoded"
                  /\ UNCHANGED err
    /\ UNCHANGED <<facts, xmlData, outsideIRS>>

ParseStepsNext == ReadReturn \/ parseHeader \/ dispatchPayload \/ decodePayload

SpecParseSteps == EdgarInit /\ [][ParseStepsNext]_vars

SpecFacts == EdgarInit /\ [][FactsNext]_vars

\* What the processed documents contributed to a series, in processing
\* order: the field of each document, a sequence of no or one entry.
RECURSIVE Contributed(_, _)
Contributed(fs, field) ==
    IF fs = <<>> THEN <<>> ELSE Head(fs)[field] \o Contributed(Tail(fs), field)

RECURSIVE FilingsOf(_)
FilingsOf(fs) == IF fs = <<>> THEN <<>> ELSE <<Head(fs).Filing>> \o FilingsOf(Tail(fs))

\* s with its i-th entry taken out.
Without(s, i) == SubSeq(s, 1, i - 1) \o SubSeq(s, i + 1, Len(s))

\* s and t hold the same entries, each as many times.
RECURSIVE SameEntries(_, _)
SameEntries(s, t) ==
    IF s = <<>> THEN t = <<>>
    ELSE /\ \E i \in 1..Len(t) : t[i] = Head(s)
         /\ SameEntries(Tail(s), Without(t, CHOOSE i \in 1..Len(t) : t[i] = Head(s)))

IsPrefix(s, t) == Len(s) <= Len(t) /\ SubSeq(t, 1, Len(s)) = s

Series == {"NetIncomeLoss", "Buybacks", "Cash", "ExecCompensationHTML", "Filings"}

\* C16: while the documents are processed a series holds what the
\* documents contributed, in processing order; after the sorts it holds
\* the same entries.
HoldsContributions ==
    /\ pc = "documents" =>
          /\ facts.NetIncomeLoss = Contributed(filingDocs, "netRevenue")
          /\ facts.Buybacks = Contributed(filingDocs, "stockRepurchase")
          /\ facts.Cash = Contributed(filingDocs, "cash")
          /\ facts.ExecCompensationHTML = Contributed(filingDocs, "tables")
          /\ facts.Filings = FilingsOf(filingDocs)
    /\ pc = "returned" =>
          /\ SameEntries(facts.NetIncomeLoss, Contributed(filingDocs, "netRevenue"))
          /\ SameEntries(facts.Buybacks, Contributed(filingDocs, "stockRepurchase"))
          /\ SameEntries(facts.Cash, Contributed(filingDocs, "cash"))
          /\ facts.ExecCompensationHTML = Contributed(filingDocs, "tables")
          /\ facts.Filings = FilingsOf(filingDocs)

\* C16: a step of a call that goes on only appends to a series, and the
\* return only reorders one.
OnlyAppends ==
    (Filling /\ facts' # NoFacts) =>
        \A field \in Series :
           IF pc' = "returned" THEN SameEntries(facts[field], facts'[field])
           ELSE IsPrefix(facts[field], facts'[field])

\* C16: each document only appends to NetIncomeLoss, Buybacks, Cash,
\* ExecCompensationHTML and Filings, no entry of an earlier document is
\* removed or replaced, and the terminal sort only permutes a series.
C16_SeriesOnlyGrow == [](HoldsContributions) /\ [][OnlyAppends]_vars

\* Three documents each gave a net income fact, and the sort moved them.
C16_Witness ==
    /\ pc = "returned"
    /\ Len(facts.NetIncomeLoss) = 3
    /\ facts.NetIncomeLoss # Contributed(filingDocs, "netRevenue")
    /\ SameEntries(facts.NetIncomeLoss, Contributed(filingDocs, "netRevenue"))

\* The date string a fact is ordered by: the end date, when there is none
\* the instant, when there is none either the start date.
OrderingDate(f) ==
    IF f.Context.EndDate # <<>> THEN f.Context.EndDate
    ELSE IF f.Context.Instant # <<>> THEN f.Context.Instant
    ELSE f.Context.StartDate

\* A fact with a context whose ordering date is there and parses.
Dated(f) == ~f.Context.nil /\ ParseDateOk(OrderingDate(f))

\* Newest first, and a fact without a date after every fact with one.
NewestFirst(s) ==
    \A i, j \in 1..Len(s) :
        i < j =>
            /\ Dated(s[j]) => Dated(s[i])
            /\ (Dated(s[i]) /\ Dated(s[j])) =>
                  ~After(ParseDate(OrderingDate(s[j])), ParseDate(OrderingDate(s[i])))

EndDatesOf(s) == [i \in 1..Len(s) |-> s[i].Context.EndDate]

\* C17: sortNonFractionsByDate leaves a series newest first by end date,
\* else instant, else start date, with the facts that have no context or
\* no parseable date after all dated ones; facts ending 2022-12-31,
\* 2023-12-31, 2021-12-31 come out as 2023, 2022, 2021.
C17_NewestFirstUndatedLast ==
    pc = "returned" =>
        /\ NewestFirst(facts.NetIncomeLoss)
        /\ NewestFirst(facts.Buybacks)
        /\ NewestFirst(facts.Cash)
        /\ EndDatesOf(Contributed(filingDocs, "netRevenue")) = <<D2022, D2023, D2021>>
              => EndDatesOf(facts.NetIncomeLoss) = <<D2023, D2022, D2021>>

\* The three year ends were appended as 2022, 2023, 2021 and sorted.
C17_Witness ==
    /\ pc = "returned"
    /\ EndDatesOf(Contributed(filingDocs, "netRevenue")) = <<D2022, D2023, D2021>>
    /\ EndDatesOf(facts.NetIncomeLoss) = <<D2023, D2022, D2021>>

\* An undated fact was appended before a dated one and came out after it.
C17_UndatedWitness ==
    /\ pc = "returned"
    /\ Len(facts.NetIncomeLoss) >= 2
    /\ ~Dated(Contributed(filingDocs, "netRevenue")[1])
    /\ Dated(facts.NetIncomeLoss[1])

TimeSeries == {"NetIncomeLoss", "Buybacks", "Cash", "WorkerPay"}

\* C18: in a record FromEdgar or FromIRS returns, NetIncomeLoss, Buybacks,
\* Cash and WorkerPay are each newest first with the undated facts last,
\* whatever the dates of the return header.
C18_EverySeriesNewestFirst ==
    pc \in {"returned", "fromIRS"} =>
        \A field \in TimeSeries : NewestFirst(facts[field])

\* The series FromIRS sorts are in order in the record it returns.
SortedSeriesNewestFirst ==
    pc \in {"returned", "fromIRS"} =>
        \A field \in TimeSeries \ {"WorkerPay"} : NewestFirst(facts[field])

IdentifierByCall ==
    /\ pc \in {"documents", "returned"} => facts.EIN = ""
    /\ pc = "fromIRS" => facts.CIK = "" /\ facts.EIN = ""
    /\ pc = "stored" => facts.CIK = "" /\ facts.EIN # ""

\* FromEdgar leaves the CIK as it was given, and FromIRS's caller is the
\* only one to assign an EIN.
IdentifierKept ==
    /\ (pc = "call" /\ pc' = "documents") => facts'.CIK \in {"", "0000320193"}
    /\ (pc = "documents" /\ facts' # NoFacts) => facts'.CIK = facts.CIK
    /\ (pc = "fromIRS") => facts'.EIN \in EINs

EmptyReturnType ==
    /\ xmlData # <<>>
    /\ pc \notin {"call", "parse"}
    /\ ~xmlData[1].readFails
    /\ ~xmlData[1].malformed
    /\ xmlData[1].ReturnHeader.ReturnTypeCd = ""

\* C20: irsform.Parse on a return whose header has an empty return type
\* code fails with the error saying so and returns no Return, and has
\* decoded the header only.
C20_EmptyReturnTypeFails ==
    EmptyReturnType =>
        /\ pc = "failed"
        /\ err = "ReturnTypeCd is empty in header"
        /\ returnDoc = <<>>
        /\ passes = <<"HeaderOnlyReturn">>
        /\ facts = NoFacts

\* Parse failed on a return that has a Form 990 and no return type.
C20_Witness ==
    /\ EmptyReturnType
    /\ pc = "failed"
    /\ xmlData[1].forms["990"] # <<>>
    /\ ~xmlData[1].forms["990"][1].bad

\* irsform.Parse has ended on a return that was read and is well formed.
ParsedHeader ==
    /\ xmlData # <<>>
    /\ pc \notin {"call", "parse"}
    /\ ~xmlData[1].readFails
    /\ ~xmlData[1].malformed

\* C21: for every return type code that is not empty and for which
\* IsSupportedReturnType is false, irsform.Parse fails with the
\* unsupported return type error, and a payload is decoded only for the
\* codes for which it is true.
C21_OnlySupportedTypesDecoded ==
    ParsedHeader =>
        LET cd == xmlData[1].ReturnHeader.ReturnTypeCd
        IN /\ (cd # "" /\ ~IsSupportedReturnType(cd)) =>
                  /\ err = "unsupported return type"
                  /\ returnDoc = <<>>
           /\ Len(passes) > 1 => IsSupportedReturnType(cd)

\* irsform.Parse has returned a Return for the XML read.
ParseSucceeded == ParsedHeader /\ returnDoc # <<>>

\* C22: the Return irsform.Parse gives has the payload variant the return
\* type code selects, 990EZ giving ReturnData990EZ and never ReturnData990,
\* 990 giving ReturnData990, with the form of that variant and with the
\* header of the return decoded.
C22_PayloadVariantByReturnType ==
    ParseSucceeded =>
        LET cd == xmlData[1].ReturnHeader.ReturnTypeCd
            data == returnDoc[1].ReturnData
        IN /\ cd = "990EZ" =>
                 data.type = "ReturnData990EZ" /\ data.form = xmlData[1].forms["990EZ"]
           /\ cd = "990" =>
                 data.type = "ReturnData990" /\ data.form = xmlData[1].forms["990"]
           /\ returnDoc[1].ReturnHeader = xmlData[1].ReturnHeader
           /\ pc = "parsed" => err = ""

\* A 990EZ return that also holds a Form 990 was parsed.
C22_Witness ==
    /\ ParseSucceeded
    /\ xmlData[1].ReturnHeader.ReturnTypeCd = "990EZ"
    /\ xmlData[1].forms["990"] # <<>>
    /\ xmlData[1].forms["990EZ"] # <<>>
    /\ returnDoc[1].ReturnData.type = "ReturnData990EZ"

\* The total revenue and the total expenses of the form FromIRS reads.
FormTotals ==
    LET data == returnDoc[1].ReturnData
    IN IF data.type = "ReturnData990"
       THEN <<data.form[1].CYTotalRevenueAmt, data.form[1].CYTotalExpensesAmt>>
       ELSE <<data.form[1].TotalRevenueAmt, data.form[1].TotalExpensesAmt>>

\* FromIRS has returned a record for a 990 or a 990EZ return.
ExtractedFromForm ==
    /\ pc \in {"fromIRS", "stored"}
    /\ returnDoc[1].ReturnData.type \in {"ReturnData990", "ReturnData990EZ"}

\* C23: for a 990 or 990EZ return FromIRS leaves one NetIncomeLoss entry,
\* of the form's total revenue minus its total expenses, with a minus sign
\* when expenses are the larger, and with the header's tax period begin
\* and end dates as its period.
C23_NetIncomeIsRevenueMinusExpenses ==
    ExtractedFromForm =>
        /\ Len(facts.NetIncomeLoss) = 1
        /\ LET entry == facts.NetIncomeLoss[1]
               header == returnDoc[1].ReturnHeader
           IN /\ AtoiOk(entry.Content)
              /\ Atoi(entry.Content) = FormTotals[1] - FormTotals[2]
              /\ (FormTotals[2] > FormTotals[1]) <=> (Head(entry.Content) = "-")
              /\ entry.Context.StartDate = header.TaxPeriodBeginDt
              /\ entry.Context.EndDate = header.TaxPeriodEndDt
              /\ ~entry.Context.nil

\* A Form 990 with expenses above revenue, in a tax year with both dates.
C23_Witness ==
    /\ ExtractedFromForm
    /\ returnDoc[1].ReturnData.type = "ReturnData990"
    /\ FormTotals[2] > FormTotals[1]
    /\ facts.NetIncomeLoss[1].Context.StartDate = Y2023Begin
    /\ facts.NetIncomeLoss[1].Context.EndDate = D2023

\* The errors of FromIRS that mention invalid return data.
InvalidReturnData ==
    {"invalid return data: nil return document", "invalid return data: missing IRS990",
     "invalid return data: missing IRS990EZ", "invalid return data: missing IRS990PF"}

\* FromIRS's argument is nil, or its payload variant has no form.
NoFormBody ==
    \/ returnDoc = <<>>
    \/ /\ returnDoc # <<>>
       /\ returnDoc[1].ReturnData.type # "nil"
       /\ returnDoc[1].ReturnData.form = <<>>

\* A call of FromIRS gives a record or an error, never both and never
\* neither, and the error of invalid return data without a record for a
\* nil argument and for a payload without form.
RecordOrError ==
    (pc = "parsed" /\ pc' # "parsed") =>
        /\ (err' # "") <=> (facts' = NoFacts)
        /\ (err' # "") <=> (pc' = "failed")
        /\ IF returnDoc = <<>> THEN err' \in InvalidReturnData
           ELSE NoFormBody => err' \in InvalidReturnData

\* C24: FromIRS returns an error of invalid return data and no record for
\* a nil return document and for a payload variant without form body, and
\* never a record together with an error.
C24_InvalidReturnDataWithoutRecord == [][RecordOrError]_vars

\* FromIRS failed on a ReturnData990 whose IRS990 is nil.
C24_Witness ==
    /\ pc = "failed"
    /\ returnDoc # <<>>
    /\ returnDoc[1].ReturnData.type = "ReturnData990"
    /\ returnDoc[1].ReturnData.form = <<>>
    /\ err = "invalid return data: missing IRS990"
    /\ facts = NoFacts

\* C25: FromIRS fails with an error of invalid input and returns no
\* record for a 990PF return, also when the form body is there.
C25_Form990PFRejected ==
    (returnDoc # <<>> /\ pc # "parsed" /\ returnDoc[1].ReturnData.type = "ReturnData990PF") =>
        /\ pc = "failed"
        /\ err \in InvalidReturnData
        /\ facts = NoFacts

\* C26: FromIRS sets TotalRevenue and TotalExpenses of the record to the
\* total revenue and total expenses of the 990 or 990EZ form.
C26_TotalsCopied ==
    ExtractedFromForm =>
        /\ facts.TotalRevenue = FormTotals[1]
        /\ facts.TotalExpenses = FormTotals[2]

\* The moves of a call of irsform.Parse.
ParseMoves ==
    {<<"call", "parse">>, <<"parse", "HeaderParsed">>, <<"parse", "Failed">>,
     <<"HeaderParsed", "PayloadDispatched">>, <<"HeaderParsed", "Failed">>,
     <<"PayloadDispatched", "Decoded">>, <<"PayloadDispatched", "Failed">>}

\* A step of the call is one of its moves, the payload is decoded only in
\* the step from PayloadDispatched, and nothing follows Decoded or Failed.
ParseInOrder ==
    /\ <<pc, pc'>> \in ParseMoves
    /\ passes' # passes =>
          IF pc = "PayloadDispatched"
          THEN passes' = Append(passes, SecondPass[xmlData[1].ReturnHeader.ReturnTypeCd])
          ELSE pc = "parse" /\ passes' = <<"HeaderOnlyReturn">>
    /\ pc' = "PayloadDispatched" =>
          /\ passes = <<"HeaderOnlyReturn">>
          /\ xmlData[1].ReturnHeader.ReturnTypeCd \in DOMAIN SecondPass

\* The call ends with a Return or with an error, never both or neither,
\* and with what irsform.Parse gives at once.
ParseEnds ==
    /\ pc = "Decoded" => returnDoc # <<>> /\ err = ""
    /\ pc = "Failed" => returnDoc = <<>> /\ err # ""
    /\ pc \in {"Decoded", "Failed"} =>
          Parsed(returnDoc, err, passes) = irsformParse(xmlData[1])
    /\ pc \in {"call", "parse", "HeaderParsed", "PayloadDispatched"} =>
          returnDoc = <<>> /\ err = ""

\* C27: a call of irsform.Parse goes through HeaderParsed,
\* PayloadDispatched and Decoded in this order, the payload decode coming
\* after the header pass and the test of the return type code; a failure
\* ends the call in Failed with no further step; the call ends with a
\* Return or an error and not both.
C27_HeaderThenDispatchThenDecode == [](ParseEnds) /\ [][ParseInOrder]_vars

\* A call that went through the three states and gave a Return.
C27_Witness ==
    /\ pc = "Decoded"
    /\ passes = <<"HeaderOnlyReturn", "Return990EZ">>
    /\ returnDoc # <<>>

\* The documents FromEdgar went through before the last one.
Earlier == SubSeq(filingDocs, 1, Len(filingDocs) - 1)

\* A document the tree of which could not be built is the last document
\* of its call, and the call has then failed with the error and no record.
FailsAtFirstError ==
    /\ \A i \in 1..Len(filingDocs) :
          filingDocs[i].err => i = Len(filingDocs) /\ pc = "failed"
    /\ (pc = "failed" /\ filingDocs # <<>>) =>
          /\ filingDocs[Len(filingDocs)].err
          /\ facts = NoFacts
          /\ err = "read error"
    /\ (pc \in {"documents", "returned"}) => err = "" /\ facts # NoFacts

\* Nothing is done in a call that has failed.
NothingAfterFailure == pc = "failed" => UNCHANGED vars

\* C28: when the tree of one of FromEdgar's documents cannot be built the
\* call returns the error and a nil record, no later document is
\* processed and nothing of the earlier documents is handed out.
C28_FirstParseErrorEndsCall == [](FailsAtFirstError) /\ [][NothingAfterFailure]_vars

\* The third document failed after two documents that gave a fact each.
C28_Witness ==
    /\ pc = "failed"
    /\ Len(filingDocs) = 3
    /\ Len(Contributed(Earlier, "netRevenue")) = 2
    /\ facts = NoFacts
    /\ err = "read error"

\* The siblings from m on, m included.
SiblingsFrom(m) ==
    IF m = NoNode THEN 0
    ELSE Cardinality({k \in NodeIds : k >= m /\ ParentOf(k) = ParentOf(m)})

\* The levels from which the walk can still climb.
LevelsLeft == IF parent = NoNode THEN 0 ELSE getNodeDepth(parent) + 1

\* What is left to walk: the levels above, then the siblings ahead.
WalkLeft == LevelsLeft * (Len(doc) + 1) + SiblingsFrom(current)

\* A pass of the loop goes to the next sibling of the current node, or,
\* without current node, one level up to the parent's next sibling; either
\* way less is left to walk.
AdvancesOrClimbs ==
    (pc = "walking" /\ pc' = "walking") =>
        /\ \/ /\ current # NoNode
              /\ current' = NextSibling(current)
              /\ parent' = parent
           \/ /\ current = NoNode
              /\ parent # NoNode
              /\ current' = NextSibling(parent)
              /\ parent' = ParentOf(parent)
              /\ LevelsLeft' = LevelsLeft - 1
        /\ WalkLeft' < WalkLeft

\* A call with a nil node or a budget that is not positive has returned
\* the empty string.
EmptyWithoutSearch ==
    IF pc = "returned" /\ (anchor = NoNode \/ budget <= 0) THEN Len(text) = 0 ELSE TRUE

\* C29: FindNextLeafNodes ends for every tree, anchor and budget, each
\* pass of its loop going to a next sibling or one level up, and it
\* returns the empty string for a nil anchor and for a budget that is not
\* positive.
C29_WalkTerminates ==
    /\ (pc = "walking") ~> (pc = "returned")
    /\ [][AdvancesOrClimbs]_walkVars
    /\ [](EmptyWithoutSearch)

\* A walk that climbed from the deepest level to the root has returned.
C29_Witness ==
    /\ pc = "returned"
    /\ anchor # NoNode
    /\ budget > 0
    /\ getNodeDepth(anchor) >= 3
    /\ current = NoNode
    /\ parent = NoNode

\* ------------------------------------------------- the caching handlers
\* Time is counted in units of ten days: cacheMaxAge is 30 * 24 hours.
cacheMaxAge == 3

\* The last time of the clock, and the largest number of downloads.
MaxClock == 5
MaxDownloads == 2

CIKs == {"0000320193"}
Handlers == {"handleFilings", "handleIRSFacts"}
Methods == {"GET", "POST"}

\* The requests: handleFilings is called by handleCik and handleTicker
\* with a cik that is not empty; the mux hands handleIRSFacts any {ein}.
Requests ==
    {[handler |-> "handleFilings", method |-> "GET", id |-> cik] : cik \in CIKs}
    \cup [handler : {"handleIRSFacts"}, method : Methods, id : EINs \cup {""}]

\* The rows of the facts table with the id: none or one (id is the key).
RowsOf(rows, id) == {r \in rows : r.id = id}

\* What a call of the database meets: the query succeeds or fails, a
\* value that was read can or cannot be decoded.
QueryOutcomes == {"ok", "query fails", "decoding fails"}

\* db.AreFactsStale(id, maxAge) at the time now.
AreFactsStaleAlways(rows, id, maxAge, now, outcome) == [stale |-> TRUE, err |-> ""]

AreFactsStale(rows, id, maxAge, now, outcome) ==
    IF outcome # "query fails" /\ RowsOf(rows, id) = {}
    THEN [stale |-> TRUE, err |-> ""]
    ELSE IF outcome = "query fails"
    THEN [stale |-> FALSE, err |-> "failed to query facts timestamp"]
    ELSE IF outcome = "decoding fails"
    THEN [stale |-> FALSE, err |-> "failed to parse timestamp"]
    ELSE LET row == CHOOSE r \in RowsOf(rows, id) : TRUE
         IN [stale |-> now - row.updated_at > maxAge, err |-> ""]

\* db.GetFacts(id)
GetFacts(rows, id, outcome) ==
    IF outcome # "query fails" /\ RowsOf(rows, id) = {}
    THEN [facts |-> <<>>, err |-> "facts not found for ID"]
    ELSE IF outcome = "query fails"
    THEN [facts |-> <<>>, err |-> "failed to query facts"]
    ELSE IF outcome = "decoding fails"
    THEN [facts |-> <<>>, err |-> "failed to unmarshal facts"]
    ELSE LET row == CHOOSE r \in RowsOf(rows, id) : TRUE
         IN [facts |-> <<row.data>>, err |-> ""]

\* db.StoreFacts(f) at the time now: INSERT OR REPLACE under f's CIK, or
\* its EIN when it has no CIK.
StoredId(f) == IF f.CIK # "" THEN f.CIK ELSE f.EIN

StoreFacts(rows, f, now) ==
    (rows \ RowsOf(rows, StoredId(f)))
        \cup {[id |-> StoredId(f), updated_at |-> now, data |-> f]}

\* What downloadAndProcessFacts and downloadAndProcessIRSFacts return on
\* success at the time now: the facts of the id as published then.
Downloaded(req, now) ==
    IF req.handler = "handleFilings"
    THEN [CIK |-> req.id, EIN |-> "", asOf |-> now]
    ELSE [CIK |-> "", EIN |-> req.id, asOf |-> now]

ServerInit ==
    /\ pc = "serve"
    /\ ParseIdle
    /\ ScaleIdle
    /\ TextIdle
    /\ LeafIdle
    /\ FactsIdle

Waiting == pc \in {"serve", "responded"}

\* Time passes.
Tick ==
    /\ clock < MaxClock
    /\ clock' = clock + 1
    /\ UNCHANGED <<pc, err, store, request, stale, factData, network, response, outsideServer>>

\* A request arrives: handleIRSFacts answers a method other than GET and
\* an empty ein at once.
Serve ==
    /\ Waiting
    /\ Len(network) < MaxDownloads
    /\ \E req \in Requests :
          /\ request' = <<req>>
          /\ IF req.handler = "handleIRSFacts" /\ req.method # "GET"
             THEN /\ response' = <<[status |-> 405, body |-> <<>>]>>
                  /\ pc' = "responded"
             ELSE IF req.handler = "handleIRSFacts" /\ req.id = ""
             THEN /\ response' = <<[status |-> 400, body |-> <<>>]>>
                  /\ pc' = "responded"
             ELSE /\ response' = <<>>
                  /\ pc' = "AreFactsStale"
    /\ stale' = FALSE
    /\ factData' = <<>>
    /\ err' = ""
    /\ UNCHANGED <<store, clock, network, outsideServer>>

\* stale, err := s.db.AreFactsStale(id, cacheMaxAge), stale on an error.
CheckStale ==
    /\ pc = "AreFactsStale"
    /\ \E outcome \in QueryOutcomes :
          LET r == AreFactsStale(store, request[1].id, cacheMaxAge, clock, outcome)
          IN /\ err' = r.err
             /\ stale' = IF r.err # "" THEN TRUE ELSE r.stale
             /\ pc' = IF r.err # "" \/ r.stale THEN "download" ELSE "GetFacts"
    /\ UNCHANGED <<store, clock, request, factData, network, response, outsideServer>>

\* factData, err = s.db.GetFacts(id), stale on an error.
GetStored ==
    /\ pc = "GetFacts"
    /\ \E outcome \in QueryOutcomes :
          LET r == GetFacts(store, request[1].id, outcome)
          IN /\ err' = r.err
             /\ factData' = r.facts
             /\ stale' = (r.err # "")
             /\ pc' = IF r.err # "" THEN "download" ELSE "Execute"
    /\ UNCHANGED <<store, clock, request, network, response, outsideServer>>

\* factData, err = s.downloadAndProcessFacts(...) and
\* s.downloadAndProcessIRSFacts(...): a request to the network, which the
\* latter leaves out when it holds the XML of the return; on an error the
\* handler answers with it.
Download ==
    /\ pc = "download"
    /\ \E ok \in BOOLEAN, heldXML \in BOOLEAN :
          /\ network' = IF request[1].handler = "handleIRSFacts" /\ heldXML
                        THEN network
                        ELSE Append(network, request[1].id)
          /\ IF ok
             THEN /\ factData' = <<Downloaded(request[1], clock)>>
                  /\ err' = ""
                  /\ pc' = "StoreFacts"
                  /\ UNCHANGED response
             ELSE /\ factData' = <<>>
                  /\ err' = "failed to download"
                  /\ response' = <<[status |-> 500, body |-> <<>>]>>
                  /\ pc' = "responded"
    /\ UNCHANGED <<store, clock, request, stale, outsideServer>>

\* s.db.StoreFacts(factData): an error is logged and the handler goes on.
Store ==
    /\ pc = "StoreFacts"
    /\ \E ok \in BOOLEAN :
          store' = IF ok THEN StoreFacts(store, factData[1], clock) ELSE store
    /\ pc' = "Execute"
    /\ UNCHANGED <<err, clock, request, stale, factData, network, response, outsideServer>>

\* tpl.Execute(w, factData)
Execute ==
    /\ pc = "Execute"
    /\ \E ok \in BOOLEAN :
          response' = IF ok THEN <<[status |-> 200, body |-> factData]>>
                      ELSE <<[status |-> 500, body |-> <<>>]>>
    /\ pc' = "responded"
    /\ UNCHANGED <<err, store, clock, request, stale, factData, network, outsideServer>>

ServerNext == Tick \/ Serve \/ CheckStale \/ GetStored \/ Download \/ Store \/ Execute

SpecServer == ServerInit /\ [][ServerNext]_vars

\* ------------------------------------------ properties: caching handlers
\* The id of the request that is served.
Served == request[1].id

\* The facts table of the moment: no row for the id, a row older than
\* cacheMaxAge, and the last call of the database having failed.
Missing == RowsOf(store, Served) = {}
Old == \E r \in RowsOf(store, Served) : clock - r.updated_at > cacheMaxAge
Unreadable == err # ""

\* A step of a handler, as opposed to the passing of time.
HandlerStep == pc' # pc

DownloadJustified == (network' # network) => (Missing \/ Old \/ Unreadable)

FreshServedFromStore ==
    /\ (pc = "AreFactsStale" /\ HandlerStep /\ ~Missing /\ ~Old /\ err' = "")
          => (pc' = "GetFacts" /\ ~stale')
    /\ (pc = "GetFacts" /\ HandlerStep /\ err' = "")
          => /\ pc' = "Execute"
             /\ ~stale'
             /\ \E r \in RowsOf(store, Served) : factData' = <<r.data>>
    /\ ~stale' => UNCHANGED <<store, network>>
    /\ (pc = "Execute" /\ HandlerStep /\ ~stale /\ response'[1].status = 200)
          => \E r \in RowsOf(store, Served) : response'[1].body = <<r.data>>

StoreFailureTolerated ==
    (pc = "StoreFacts" /\ HandlerStep)
        => /\ pc' = "Execute"
           /\ UNCHANGED <<factData, response, err>>
           /\ factData # <<>>

\* C30: a handler starts a download only when the stored facts of the id
\* are missing, older than the maximum age, or could not be read; facts
\* that are fresh and readable are rendered from the stored row without a
\* download and without a write; and after a download that succeeded the
\* handler renders the facts whether or not storing them failed.
C30_DownloadOnlyWhenStale ==
    [][DownloadJustified /\ FreshServedFromStore /\ StoreFailureTolerated]_vars

\* A request answered from the row an earlier request downloaded, some
\* time after it was stored.
C30_Witness ==
    /\ pc = "responded"
    /\ ~stale
    /\ network # <<>>
    /\ response[1].status = 200
    /\ \E r \in RowsOf(store, Served) :
          /\ response[1].body = <<r.data>>
          /\ clock > r.updated_at

====
